---- MODULE Spec2Model ----
(***************************************************************************)
(* A model of tXml: the parser core (parse), the serializer (stringify),   *)
(* the simplify transform, the attribute-search lookups and the streaming  *)
(* adapter (transformStream / transformWebStream).                         *)
(*                                                                         *)
(* Strings are sequences of UTF-16 code units (integers), so that the      *)
(* character-code tests of the source read as they do there.  Positions    *)
(* are 0-based as in the source; -1 is the "not found" value of indexOf.   *)
(***************************************************************************)
EXTENDS Integers, Sequences, FiniteSets, TLC

VARIABLES
    S,        \* the input text handed to parse / the lookups
    opts,     \* the ParseOptions of the run
    phase,    \* which operation of the pipeline has been applied last
    res,      \* the outcome of parse(S, opts)
    res2,     \* the outcome of a second parse, of a derived input
    str,      \* the text stringify produced from res.out
    simp,     \* the value simplify produced
    given,    \* what the input was built from (the generator's choice)
    chunks,   \* stream: the chunks not yet delivered
    data,     \* stream: the adapter's buffer
    position, \* stream: the adapter's scan cursor
    base,     \* stream: how many characters of the input were sliced off data
    emitted,  \* stream: the items pushed so far, each with where it was found
    streamStatus \* stream: "ok", "throw" (parse raised), "stalled" (the loop never ends)

vars == <<S, opts, phase, res, res2, str, simp, given,
          chunks, data, position, base, emitted, streamStatus>>

---------------------------------------------------------------------------
(* Character codes for faster parsing: tXml.ts 8-19 *)
OPEN_BRACKET == 60
CLOSE_BRACKET == 62
SLASH == 47
EXCLAMATION == 33
MINUS == 45
SINGLE_QUOTE == 39
DOUBLE_QUOTE == 34
OPEN_SQUARE == 91
CLOSE_SQUARE == 93
NAME_END_CHARS == <<13, 10, 9, 62, 47, 61, 32>>

\* The literals of the source, spelled as code units.
LIT_img == <<105, 109, 103>>
LIT_br == <<98, 114>>
LIT_input == <<105, 110, 112, 117, 116>>
LIT_meta == <<109, 101, 116, 97>>
LIT_link == <<108, 105, 110, 107>>
LIT_hr == <<104, 114>>
LIT_script == <<115, 99, 114, 105, 112, 116>>
LIT_style == <<115, 116, 121, 108, 101>>
LIT_cdata == <<99, 100, 97, 116, 97>>
LIT_endScript == <<60, 47, 115, 99, 114, 105, 112, 116, 62>>
LIT_endStyle == <<60, 47, 115, 116, 121, 108, 101, 62>>
LIT_endCdata == <<93, 93, 62>>
LIT_endComment == <<45, 45, 62>>
LIT_id == <<105, 100>>
LIT_class == <<99, 108, 97, 115, 115>>
LIT_attributes == <<95, 97, 116, 116, 114, 105, 98, 117, 116, 101, 115>>

DEFAULT_SELF_CLOSING == <<LIT_img, LIT_br, LIT_input, LIT_meta, LIT_link, LIT_hr>>

---------------------------------------------------------------------------
(* The string primitives of the host language, with their edge cases.      *)

\* charCodeAt outside the string is NaN: a value equal to no code unit.
NaN == 0 - 1

Min(a, b) == IF a < b THEN a ELSE b
Max(a, b) == IF a > b THEN a ELSE b
Clamp(i, n) == Max(0, Min(i, n))

\* S[i] is defined (truthy) exactly inside the string.
Has(s, i) == i >= 0 /\ i < Len(s)

CharCodeAt(s, i) == IF Has(s, i) THEN s[i + 1] ELSE NaN

\* Does sub occur in s at 0-based index i.
OccursAt(s, sub, i) ==
    /\ i >= 0
    /\ i + Len(sub) <= Len(s)
    /\ \A k \in 1..Len(sub) : s[i + k] = sub[k]

\* String.prototype.indexOf(sub, from): from is clamped to [0, length].
IndexOf(s, sub, from) ==
    LET lo == Clamp(from, Len(s))
        hits == {i \in lo..(Len(s) - Len(sub)) : OccursAt(s, sub, i)}
    IN  IF hits = {} THEN 0 - 1 ELSE CHOOSE i \in hits : \A j \in hits : i <= j

\* String.prototype.lastIndexOf(sub, from): the last occurrence starting at or
\* before from (clamped to [0, length]).
LastIndexOf(s, sub, from) ==
    LET hi == Clamp(from, Len(s))
        hits == {i \in 0..Min(hi, Len(s) - Len(sub)) : OccursAt(s, sub, i)}
    IN  IF hits = {} THEN 0 - 1 ELSE CHOOSE i \in hits : \A j \in hits : i >= j

\* String.prototype.includes.
Includes(s, sub) == IndexOf(s, sub, 0) # 0 - 1

\* String.prototype.slice(a, b): a negative index counts from the end.
SliceIdx(i, n) == IF i < 0 THEN Max(n + i, 0) ELSE Min(i, n)

Slice(s, a, b) ==
    LET from == SliceIdx(a, Len(s))
        to == SliceIdx(b, Len(s))
    IN  IF from < to THEN SubSeq(s, from + 1, to) ELSE <<>>

\* String.prototype.substring(a, b): indexes are clamped, then swapped when
\* out of order.
Substring(s, a, b) ==
    LET x == Clamp(a, Len(s))
        y == Clamp(b, Len(s))
    IN  SubSeq(s, Min(x, y) + 1, Max(x, y))

\* The characters String.prototype.trim removes (WhiteSpace and
\* LineTerminator of the language).
IsJsSpace(c) ==
    \/ c \in {9, 10, 11, 12, 13, 32, 160, 5760, 8232, 8233, 8239, 8287, 12288, 65279}
    \/ (c >= 8192 /\ c <= 8202)

RECURSIVE TrimStart(_)
TrimStart(s) ==
    IF s # <<>> /\ IsJsSpace(Head(s)) THEN TrimStart(Tail(s)) ELSE s

RECURSIVE TrimEnd(_)
TrimEnd(s) ==
    IF s # <<>> /\ IsJsSpace(s[Len(s)]) THEN TrimEnd(SubSeq(s, 1, Len(s) - 1)) ELSE s

Trim(s) == TrimEnd(TrimStart(s))

\* Array.prototype.includes on a list of strings / of characters.
InList(list, x) == \E i \in 1..Len(list) : list[i] = x

\* Check if letter (A-Z: 65-90, a-z: 97-122).
IsLetter(c) == (c > 64 /\ c < 91) \/ (c > 96 /\ c < 123)

\* toLowerCase on the ASCII range.
ToLower(s) == [i \in 1..Len(s) |-> IF s[i] > 64 /\ s[i] < 91 THEN s[i] + 32 ELSE s[i]]

---------------------------------------------------------------------------
(* The tree: TNode, and a text child (a string in the source).             *)

Text(t) == [type |-> "text", text |-> t]

Element(tagName, attributes, children) ==
    [type |-> "element", tagName |-> tagName, attributes |-> attributes,
     children |-> children]

IsText(c) == c.type = "text"
IsElement(c) == c.type = "element"

\* An attribute value is a string or null.
StringValue(v) == [null |-> FALSE, string |-> v]

\* A slip: an attribute without a value gets the empty string.
NoValue_empty == [null |-> FALSE, string |-> <<>>]

\* value = null: the attribute was written without a value.
NoValue == [null |-> TRUE]

\* attributes[name] = value on a Record: a new key is appended in insertion
\* order, an existing key keeps its place and takes the new value.  (Names
\* start with a letter, so none is an integer-like key.)
SetAttribute(attributes, name, value) ==
    IF \E i \in 1..Len(attributes) : attributes[i].name = name
    THEN [i \in 1..Len(attributes) |->
             IF attributes[i].name = name
             THEN [name |-> name, value |-> value]
             ELSE attributes[i]]
    ELSE Append(attributes, [name |-> name, value |-> value])

---------------------------------------------------------------------------
(* parse: the scanning functions.  Each takes the text and the cursor and  *)
(* returns what it read with the cursor where the source leaves it.        *)

\* How many loop iterations of parseChildren one parse may take before the
\* model reports it as not terminating.
MaxSteps == 16

\* parseText: returns text until the first '<'.
parseText(s, pos) ==
    LET found == IndexOf(s, <<OPEN_BRACKET>>, pos) - 1
        p == IF found = 0 - 2 THEN Len(s) ELSE found
    IN  [text |-> Slice(s, pos, p + 1), pos |-> p]

\* parseName: returns tag/attribute name.
RECURSIVE NameEnd(_, _)
NameEnd(s, pos) ==
    IF Has(s, pos) /\ ~InList(NAME_END_CHARS, s[pos + 1])
    THEN NameEnd(s, pos + 1)
    ELSE pos

parseName(s, pos) ==
    LET p == NameEnd(s, pos)
    IN  [name |-> Slice(s, pos, p), pos |-> p]

\* parseString: parses attribute value string.
parseString(s, pos) ==
    LET start == pos + 1
        p == IndexOf(s, <<s[pos + 1]>>, start)
    IN  [value |-> Slice(s, start, p), pos |-> p]

\* "Skip to quote or end": the loop after an attribute name.
RECURSIVE SkipToQuote(_, _)
SkipToQuote(s, pos) ==
    LET code == CharCodeAt(s, pos)
    IN  IF /\ code # NaN
           /\ code # 0
           /\ code # SINGLE_QUOTE
           /\ code # DOUBLE_QUOTE
           /\ ~IsLetter(code)
           /\ code # CLOSE_BRACKET
        THEN SkipToQuote(s, pos + 1)
        ELSE pos

\* The attribute loop of parseNode.  unterminated: a quoted value had no
\* closing quote, and parseNode returns at once with the cursor at -1.
RECURSIVE parseAttributes(_, _, _)
RECURSIVE attributeValue(_, _, _, _)

\* After an attribute name: q is where the skip stopped.
attributeValue(s, attributes, name, q) ==
    LET quoted(v) ==
            IF v.pos = 0 - 1
            THEN [attributes |-> attributes, pos |-> v.pos, unterminated |-> TRUE]
            ELSE parseAttributes(s, v.pos + 1,
                     SetAttribute(attributes, name, StringValue(v.value)))
    IN  IF CharCodeAt(s, q) = SINGLE_QUOTE \/ CharCodeAt(s, q) = DOUBLE_QUOTE
        THEN quoted(parseString(s, q))
        ELSE parseAttributes(s, (q - 1) + 1, SetAttribute(attributes, name, NoValue))

parseAttributes(s, pos, attributes) ==
    LET named(n) == attributeValue(s, attributes, n.name, SkipToQuote(s, n.pos))
    IN  IF CharCodeAt(s, pos) # CLOSE_BRACKET /\ Has(s, pos)
        THEN IF IsLetter(CharCodeAt(s, pos))
             THEN named(parseName(s, pos))
             ELSE parseAttributes(s, pos + 1, attributes)
        ELSE [attributes |-> attributes, pos |-> pos, unterminated |-> FALSE]

\* The content of a script or style element: everything up to the literal
\* closing tag, as one text child; the cursor goes past the closing tag.
rawContent(s, pos, endTag) ==
    LET start == pos + 1
        p == IndexOf(s, endTag, pos)
    IN  [children |-> <<Text(Slice(s, start, p))>>, pos |-> p + Len(endTag)]

\* Close tag: the text between "</" and the next ">", and the cursor on ">".
closeTagEnd(s, pos) == IndexOf(s, <<CLOSE_BRACKET>>, pos)

closeTagText(s, pos) == Substring(s, pos + 2, closeTagEnd(s, pos))

\* A slip: the close tag must equal the name.
closeTagMatches_exact(closeTag, tagName) == closeTag = tagName

\* closeTag.includes(tagName)
closeTagMatches(closeTag, tagName) == Includes(closeTag, tagName)

\* if (pos + 1) pos++
afterCloseTag(p) == IF p + 1 # 0 THEN p + 1 ELSE p

\* Comment: the cursor ends on the '>' of the first "-->", or at the end of
\* the text when there is none.
IsCommentEnd(s, pos) ==
    /\ CharCodeAt(s, pos) = CLOSE_BRACKET
    /\ CharCodeAt(s, pos - 1) = MINUS
    /\ CharCodeAt(s, pos - 2) = MINUS

RECURSIVE commentScan(_, _)
commentScan(s, pos) ==
    IF pos # 0 - 1 /\ ~IsCommentEnd(s, pos)
    THEN commentScan(s, IndexOf(s, <<CLOSE_BRACKET>>, pos + 1))
    ELSE pos

commentEnd(s, pos) ==
    LET p == commentScan(s, pos)
    IN  IF p = 0 - 1 THEN Len(s) ELSE p

\* A slip: the comment is kept whatever the option says.
commentChildren_always(s, start, end, keepComments) ==
    <<Text(Substring(s, start, end + 1))>>

\* if (keepComments) children.push(S.substring(startCommentPos, pos + 1))
commentChildren(s, start, end, keepComments) ==
    IF keepComments THEN <<Text(Substring(s, start, end + 1))>> ELSE <<>>

\* The test that opens a CDATA section.
IsCdataStart(s, pos) ==
    /\ CharCodeAt(s, pos + 2) = OPEN_SQUARE
    /\ CharCodeAt(s, pos + 8) = OPEN_SQUARE
    /\ ToLower(Substring(s, pos + 3, pos + 8)) = LIT_cdata

\* A slip: the index of "]]>" is used without the test for -1.
cdata_unchecked(s, pos) ==
    [child |-> Text(Substring(s, pos + 9, IndexOf(s, LIT_endCdata, pos))),
     pos |-> IndexOf(s, LIT_endCdata, pos) + 3]

\* CDATA: the content up to "]]>" (or to the end of the text) as a text
\* child; the cursor goes past the terminator (or to the end of the text).
cdata(s, pos) ==
    LET cdataEndIndex == IndexOf(s, LIT_endCdata, pos)
    IN  IF cdataEndIndex = 0 - 1
        THEN [child |-> Text(Substring(s, pos + 9, Len(s))), pos |-> Len(s)]
        ELSE [child |-> Text(Substring(s, pos + 9, cdataEndIndex)),
              pos |-> cdataEndIndex + 3]

\* DOCTYPE: the cursor ends on the first '>' met while not encapsulated in
\* [ ], or at the end of the text.
RECURSIVE doctypeScan(_, _, _)
doctypeScan(s, pos, encapsulated) ==
    IF (CharCodeAt(s, pos) # CLOSE_BRACKET \/ encapsulated) /\ Has(s, pos)
    THEN doctypeScan(s, pos + 1,
             IF CharCodeAt(s, pos) = OPEN_SQUARE THEN TRUE
             ELSE IF encapsulated /\ CharCodeAt(s, pos) = CLOSE_SQUARE THEN FALSE
             ELSE encapsulated)
    ELSE pos

\* A slip: the declaration ends at the first '>', bracketed or not.
doctype_firstBracket(s, pos) ==
    LET found == IndexOf(s, <<CLOSE_BRACKET>>, pos + 2)
        p == IF found = 0 - 1 THEN Len(s) ELSE found
    IN  [child |-> Text(Substring(s, pos + 1, p)), pos |-> p]

doctype(s, pos) ==
    LET p == doctypeScan(s, pos + 2, FALSE)
    IN  [child |-> Text(Substring(s, pos + 1, p)), pos |-> p]

\* A slip: the text run kept as read whether or not keepWhitespace.
textChildren_untrimmed(text, keepWhitespace) ==
    IF Len(text) > 0 THEN <<Text(text)>> ELSE <<>>

\* A text run as children: trimmed and dropped when empty unless
\* keepWhitespace.
textChildren(text, keepWhitespace) ==
    IF keepWhitespace
    THEN IF Len(text) > 0 THEN <<Text(text)>> ELSE <<>>
    ELSE IF Len(Trim(text)) > 0 THEN <<Text(Trim(text))>> ELSE <<>>

\* A parsed node as children of its parent: a processing instruction hands
\* its children to the parent and keeps none.
nodeChildren(node) ==
    IF node.tagName # <<>> /\ node.tagName[1] = 63
    THEN <<[node EXCEPT !.children = <<>>]>> \o node.children
    ELSE <<node>>

\* One construct the scan consumed: its kind, where it began, where it left
\* the cursor, and the tag whose children were being read.
Event(kind, from, to, tagName) ==
    [kind |-> kind, from |-> from, to |-> to, tag |-> tagName]

---------------------------------------------------------------------------
(* parseChildren and parseNode.  st is the state the closures share: the   *)
(* cursor, the remaining step budget, and the log of constructs consumed.  *)
(* status "throw" is the Error of the close-tag check; "diverged" is a     *)
(* scan that used up its step budget.                                      *)

RECURSIVE parseChildren(_, _, _, _, _)
RECURSIVE parseNode(_, _, _)
RECURSIVE afterNode(_, _, _, _, _, _)
RECURSIVE elementBody(_, _, _, _, _)

\* What a scan returns: how it ended, what it produced, and the shared state.
Returned(status, children, p, fuel, log) ==
    [status |-> status, children |-> children, pos |-> p, fuel |-> fuel,
     log |-> log]

\* A close tag met by parseChildren: p is the position of its '>'.
closeTag(s, tagName, children, st, p) ==
    IF ~closeTagMatches(closeTagText(s, st.pos), tagName)
    THEN Returned("throw", children, p, st.fuel,
             Append(st.log, Event("closeError", st.pos, p, tagName)))
    ELSE Returned("ok", children, afterCloseTag(p), st.fuel,
             Append(st.log, Event("close", st.pos, afterCloseTag(p), tagName)))

\* children.push(node) and, for a processing instruction, its children; n
\* is what parseNode returned.
afterNode(s, o, tagName, children, from, n) ==
    IF n.status # "ok"
    THEN Returned(n.status, children \o nodeChildren(n.node), n.pos, n.fuel,
             n.log)
    ELSE parseChildren(s, o, tagName, children \o nodeChildren(n.node),
             [pos |-> n.pos, fuel |-> n.fuel,
              log |-> Append(n.log, Event("element", from, n.pos, tagName))])

parseChildren(s, o, tagName, children, st) ==
    LET next(more, p, kind) ==
            parseChildren(s, o, tagName, children \o more,
                [pos |-> p, fuel |-> st.fuel - 1,
                 log |-> Append(st.log, Event(kind, st.pos, p, tagName))])
        comment(p) == next(commentChildren(s, st.pos, p, o.keepComments),
                           p + 1, "comment")
        section(c, kind, skip) == next(<<c.child>>, c.pos + skip, kind)
        text(t) == next(textChildren(t.text, o.keepWhitespace), t.pos + 1, "text")
    IN  IF ~Has(s, st.pos) THEN Returned("ok", children, st.pos, st.fuel, st.log)
        ELSE IF st.fuel = 0
        THEN Returned("diverged", children, st.pos, st.fuel, st.log)
        ELSE IF CharCodeAt(s, st.pos) = OPEN_BRACKET
        THEN IF CharCodeAt(s, st.pos + 1) = SLASH
             THEN closeTag(s, tagName, children, st, closeTagEnd(s, st.pos))
             ELSE IF CharCodeAt(s, st.pos + 1) = EXCLAMATION
             THEN IF CharCodeAt(s, st.pos + 2) = MINUS
                  THEN comment(commentEnd(s, st.pos))
                  ELSE IF IsCdataStart(s, st.pos)
                  THEN section(cdata(s, st.pos), "cdata", 0)
                  ELSE section(doctype(s, st.pos), "doctype", 1)
             ELSE afterNode(s, o, tagName, children, st.pos,
                      parseNode(s, o, [st EXCEPT !.fuel = st.fuel - 1]))
        ELSE text(parseText(s, st.pos))

\* What parseNode returns: the node, and the shared state.
ReturnedNode(status, tagName, attributes, children, p, fuel, log) ==
    [status |-> status, node |-> Element(tagName, attributes, children),
     pos |-> p, fuel |-> fuel, log |-> log]

\* parseNode after the attribute loop; a is what the loop returned.
elementBody(s, o, st, tagName, a) ==
    LET leaf(children, p) ==
            ReturnedNode("ok", tagName, a.attributes, children, p, st.fuel, st.log)
        raw(c) == leaf(c.children, c.pos)
        parent(c) ==
            ReturnedNode(c.status, tagName, a.attributes, c.children, c.pos,
                c.fuel, c.log)
    IN  IF a.unterminated THEN leaf(<<>>, a.pos)
        ELSE IF CharCodeAt(s, a.pos - 1) # SLASH
        THEN IF tagName = LIT_script
             THEN raw(rawContent(s, a.pos, LIT_endScript))
             ELSE IF tagName = LIT_style
             THEN raw(rawContent(s, a.pos, LIT_endStyle))
             ELSE IF ~InList(o.selfClosingTags, tagName)
             THEN parent(parseChildren(s, o, tagName, <<>>,
                             [st EXCEPT !.pos = a.pos + 1]))
             ELSE leaf(<<>>, a.pos + 1)
        ELSE leaf(<<>>, a.pos + 1)

parseNode(s, o, st) ==
    LET named(n) == elementBody(s, o, st, n.name, parseAttributes(s, n.pos, <<>>))
    IN  named(parseName(s, st.pos + 1))

\* "undefined", what a template literal writes for S[pos] off the text.
LIT_undefined == <<117, 110, 100, 101, 102, 105, 110, 101, 100>>

\* S.substring(0, pos).split("\n"): lines.length - 1, and the length of the
\* last line.
LineBreaks(s) == Cardinality({i \in 1..Len(s) : s[i] = 10})

RECURSIVE LastLineLength(_)
LastLineLength(s) ==
    IF s = <<>> \/ s[Len(s)] = 10 THEN 0
    ELSE 1 + LastLineLength(SubSeq(s, 1, Len(s) - 1))

\* The Error of the close-tag check, by the numbers and the character its
\* message holds: "Unexpected close tag\nLine: ..\nColumn: ..\nChar: ..".
UnexpectedCloseTag(s, pos) ==
    [line |-> LineBreaks(Substring(s, 0, pos)),
     column |-> LastLineLength(Substring(s, 0, pos)) + 1,
     char |-> IF Has(s, pos) THEN <<s[pos + 1]>> ELSE LIT_undefined]

\* No Error was thrown.
NoError == [thrown |-> FALSE]

\* The options parse reads, with their defaults.
DefaultOptions ==
    [pos |-> 0, keepComments |-> FALSE, keepWhitespace |-> FALSE,
     selfClosingTags |-> DEFAULT_SELF_CLOSING, parseNode |-> FALSE]

\* parse outside attribute-search mode: one node (parseNode) or a list of
\* siblings.  out is the returned value; pos is where the scan stopped
\* (what setPos reports).
parse(s, options) ==
    LET st0 == [pos |-> options.pos, fuel |-> MaxSteps, log |-> <<>>]
        error(r) == IF r.status = "throw" THEN UnexpectedCloseTag(s, r.pos)
                    ELSE NoError
        one(r) == [status |-> r.status, out |-> r.node, pos |-> r.pos,
                   log |-> r.log, error |-> error(r)]
        list(r) == [status |-> r.status, out |-> r.children, pos |-> r.pos,
                    log |-> r.log, error |-> error(r)]
    IN  IF options.parseNode
        THEN one(parseNode(s, options, st0))
        ELSE list(parseChildren(s, options, <<>>, <<>>, st0))

---------------------------------------------------------------------------
(* Attribute-search mode and the lookups built on it.  The RegExp          *)
(*   \s<attrName>\s*=['"]<attrValue>['"]                                   *)
(* is modelled for the two shapes of attrValue the lookups pass: a literal *)
(* (getElementById) and a class name inside a run of [a-zA-Z0-9- ]         *)
(* (getElementsByClassName).  Ids and class names are taken to hold no     *)
(* RegExp metacharacters.                                                  *)

\* How many rounds the search loop may take before the model reports that
\* it does not end.
MaxSearchRounds == 6

Literal(v) == [kind |-> "literal", text |-> v]
ClassPattern(v) == [kind |-> "class", text |-> v]

\* ['"]
IsQuote(c) == c = SINGLE_QUOTE \/ c = DOUBLE_QUOTE

\* The class without the space: [a-zA-Z0-9-]
IsClassChar_noSpace(c) ==
    \/ (c >= 97 /\ c <= 122)
    \/ (c >= 65 /\ c <= 90)
    \/ (c >= 48 /\ c <= 57)
    \/ c = MINUS

\* [a-zA-Z0-9- ]
IsClassChar(c) ==
    \/ (c >= 97 /\ c <= 122)
    \/ (c >= 65 /\ c <= 90)
    \/ (c >= 48 /\ c <= 57)
    \/ c = MINUS
    \/ c = 32

\* <attrValue>['"] matches at index j.
ValueMatchesAt(s, j, pattern) ==
    IF pattern.kind = "literal"
    THEN /\ OccursAt(s, pattern.text, j)
         /\ IsQuote(CharCodeAt(s, j + Len(pattern.text)))
    ELSE \E a \in j..Len(s) : \E e \in (a + Len(pattern.text))..(Len(s) - 1) :
            /\ OccursAt(s, pattern.text, a)
            /\ IsQuote(CharCodeAt(s, e))
            /\ \A m \in j..(a - 1) : IsClassChar(CharCodeAt(s, m))
            /\ \A m \in (a + Len(pattern.text))..(e - 1) :
                  IsClassChar(CharCodeAt(s, m))

\* The whole expression matches at index i.
MatchesAt(s, i, attrName, pattern) ==
    /\ IsJsSpace(CharCodeAt(s, i))
    /\ OccursAt(s, attrName, i + 1)
    /\ \E w \in (i + 1 + Len(attrName))..(Len(s) - 1) :
          /\ \A m \in (i + 1 + Len(attrName))..(w - 1) : IsJsSpace(CharCodeAt(s, m))
          /\ CharCodeAt(s, w) = 61
          /\ IsQuote(CharCodeAt(s, w + 1))
          /\ ValueMatchesAt(s, w + 2, pattern)

\* findElements: the index of the first match, or -1.
findElements(s, attrName, pattern) ==
    LET hits == {i \in 0..(Len(s) - 1) : MatchesAt(s, i, attrName, pattern)}
    IN  IF attrName = <<>> \/ (pattern.kind = "literal" /\ pattern.text = <<>>)
        THEN 0 - 1
        ELSE IF hits = {} THEN 0 - 1
        ELSE CHOOSE i \in hits : \A j \in hits : i <= j

\* The search loop: parse the element whose start tag holds the match, drop
\* the text up to its end, search again.
RECURSIVE search(_, _, _, _, _, _)
search(s, o, attrName, pattern, out, rounds) ==
    LET parsed(n) ==
            IF n.status # "ok" THEN [status |-> n.status, out |-> out]
            ELSE search(Substring(s, n.pos, Len(s)), o, attrName, pattern,
                        Append(out, n.node), rounds - 1)
        at(p) ==
            IF p # 0 - 1
            THEN parsed(parseNode(s, o, [pos |-> p, fuel |-> MaxSteps, log |-> <<>>]))
            ELSE search(Substring(s, p, Len(s)), o, attrName, pattern, out,
                        rounds - 1)
        found(m) ==
            IF m = 0 - 1 THEN [status |-> "ok", out |-> out]
            ELSE IF rounds = 0 THEN [status |-> "diverged", out |-> out]
            ELSE at(LastIndexOf(s, <<OPEN_BRACKET>>, m))
    IN  found(findElements(s, attrName, pattern))

\* The value of a call that returns nothing.
Undefined == [undefined |-> TRUE]

\* getElementById(S, id), not simplified: out[0].
getElementById(s, id) ==
    LET first(r) == [status |-> r.status,
                     out |-> IF r.out = <<>> THEN Undefined ELSE r.out[1]]
    IN  first(search(s, DefaultOptions, LIT_id, Literal(id), <<>>, MaxSearchRounds))

\* getElementsByClassName(S, classname), not simplified.
getElementsByClassName(s, classname) ==
    search(s, DefaultOptions, LIT_class, ClassPattern(classname), <<>>,
           MaxSearchRounds)

---------------------------------------------------------------------------
(* filter.  The predicate f is one of a few tests of the arguments filter  *)
(* hands it: the node, its index among its siblings, the depth, the path.  *)

\* The decimal text of a natural number, as a template literal writes it.
RECURSIVE NumberText(_)
NumberText(n) ==
    IF n < 10 THEN <<48 + n>> ELSE NumberText(n \div 10) \o <<48 + (n % 10)>>

TagNameIs(name) == [test |-> "tagName", arg |-> name]
DepthIs(d) == [test |-> "depth", arg |-> d]
IndexIs(i) == [test |-> "index", arg |-> i]
PathIs(p) == [test |-> "path", arg |-> p]
HasAttributes == [test |-> "attributes", arg |-> 0]

\* f(child, i, depth, path)
Call(f, child, i, depth, path) ==
    CASE f.test = "tagName" -> child.tagName = f.arg
      [] f.test = "depth" -> depth = f.arg
      [] f.test = "index" -> i = f.arg
      [] f.test = "path" -> path = f.arg
      [] OTHER -> Len(child.attributes) > 0

\* `${path ? path + "." : ""}${i}.${child.tagName}`, i the 0-based index
newPath(path, i, child) ==
    (IF path # <<>> THEN path \o <<46>> ELSE <<>>)
        \o NumberText(i) \o <<46>> \o child.tagName

\* filter that does not look into the children of an element that matched.
RECURSIVE filter_unmatchedOnly(_, _, _, _)
filter_unmatchedOnly(children, f, depth, path) ==
    LET RECURSIVE each(_)
        each(k) ==
            IF k > Len(children) THEN <<>>
            ELSE IF ~IsElement(children[k]) THEN each(k + 1)
            ELSE IF Call(f, children[k], k - 1, depth, path)
            THEN <<children[k]>> \o each(k + 1)
            ELSE filter_unmatchedOnly(children[k].children, f, depth + 1,
                                      newPath(path, k - 1, children[k]))
                 \o each(k + 1)
    IN  each(1)

\* filter(children, f, depth, path): children.forEach((child, i) => ...)
RECURSIVE filter(_, _, _, _)
filter(children, f, depth, path) ==
    LET RECURSIVE each(_)
        each(k) ==
            IF k > Len(children) THEN <<>>
            ELSE IF ~IsElement(children[k]) THEN each(k + 1)
            ELSE (IF Call(f, children[k], k - 1, depth, path)
                  THEN <<children[k]>> ELSE <<>>)
                 \o filter(children[k].children, f, depth + 1,
                           newPath(path, k - 1, children[k]))
                 \o each(k + 1)
    IN  each(1)

---------------------------------------------------------------------------
(* toContentString.  Its argument is a list (toContentString), or one      *)
(* entry of a list: an element or a text (contentOf).                      *)

\* Array.prototype.join(" ")
RECURSIVE JoinSpace(_)
JoinSpace(parts) ==
    IF parts = <<>> THEN <<>>
    ELSE IF Len(parts) = 1 THEN parts[1]
    ELSE parts[1] \o <<32>> \o JoinSpace(Tail(parts))

\* The text as it is.
textContent_raw(t) == t

\* ` ${tDom}`
textContent(t) == <<32>> \o t

RECURSIVE toContentString(_)
RECURSIVE contentOf(_)
toContentString(tDom) ==
    Trim(JoinSpace([k \in 1..Len(tDom) |-> contentOf(tDom[k])]))

contentOf(e) ==
    IF IsElement(e) THEN toContentString(e.children) ELSE textContent(e.text)

---------------------------------------------------------------------------
(* stringify.  A RegExp option is modelled by the set of names it matches  *)
(* (an absent option matches none); the patterns carry no g or y flag, so  *)
(* test keeps no state.  indentSpaces is <<>> when absent and <<n>> when   *)
(* given as n.                                                             *)

\* A pattern that matches nothing.
RegExpTest_never(re, name) == FALSE

\* re.test(name)
RegExpTest(re, name) == name \in re

NoStringifyOptions ==
    [skipTags |-> {}, stripParams |-> {}, compactTags |-> {}, indentSpaces |-> <<>>]

RECURSIVE Repeat(_, _)
Repeat(s, n) == IF n <= 0 THEN <<>> ELSE s \o Repeat(s, n - 1)

\* const indent = indentSpaces && indentSpaces > 0 ? " ".repeat(indentSpaces) : ""
\* A slip: at least one space of indentation whenever indentSpaces is given.
indentOf_atLeastOne(so) ==
    IF so.indentSpaces # <<>>
    THEN Repeat(<<32>>, Max(1, so.indentSpaces[1]))
    ELSE <<>>

indentOf(so) ==
    IF so.indentSpaces # <<>> /\ so.indentSpaces[1] # 0 /\ so.indentSpaces[1] > 0
    THEN Repeat(<<32>>, so.indentSpaces[1])
    ELSE <<>>

\* A slip: every value written in single quotes.
attributeText_single(k, v) ==
    IF v.null THEN <<32>> \o k
    ELSE <<32>> \o k \o <<61, SINGLE_QUOTE>> \o Trim(v.string) \o <<SINGLE_QUOTE>>

\* One attribute as written: a bare name for null, single quotes when the
\* value holds a double quote, double quotes otherwise; the value trimmed.
attributeText(k, v) ==
    IF v.null THEN <<32>> \o k
    ELSE IF Includes(v.string, <<DOUBLE_QUOTE>>)
    THEN <<32>> \o k \o <<61, SINGLE_QUOTE>> \o Trim(v.string) \o <<SINGLE_QUOTE>>
    ELSE <<32>> \o k \o <<61, DOUBLE_QUOTE>> \o Trim(v.string) \o <<DOUBLE_QUOTE>>

\* A slip: compact by the element's own name only.
isCompactOf_own(compact, so, node) == RegExpTest(so.compactTags, node.tagName)

\* const isCompact = compact || compactTags?.test(node.tagName)
isCompactOf(compact, so, node) ==
    compact \/ RegExpTest(so.compactTags, node.tagName)

RECURSIVE attributesText(_, _)
attributesText(attributes, so) ==
    IF attributes = <<>> THEN <<>>
    ELSE (IF RegExpTest(so.stripParams, Head(attributes).name)
          THEN <<>>
          ELSE attributeText(Head(attributes).name, Head(attributes).value))
         \o attributesText(Tail(attributes), so)

\* write(nodes, depth, compact): the text the call appends to out.
RECURSIVE write(_, _, _, _)
write(nodes, depth, compact, so) ==
    IF nodes = <<>> THEN <<>>
    ELSE LET node == Head(nodes)
             indent == indentOf(so)
             lead == IF ~compact /\ indent # <<>>
                     THEN <<10>> \o Repeat(indent, depth)
                     ELSE <<>>
             this ==
                 IF IsText(node)
                 THEN LET t == Trim(node.text)
                      IN  IF t # <<>> THEN lead \o t ELSE <<>>
                 ELSE IF RegExpTest(so.skipTags, node.tagName) THEN <<>>
                 ELSE LET isCompact == isCompactOf(compact, so, node)
                          open == lead \o <<OPEN_BRACKET>> \o node.tagName
                                  \o attributesText(node.attributes, so)
                          hasEl == \E i \in 1..Len(node.children) :
                                      IsElement(node.children[i])
                      IN  IF node.tagName # <<>> /\ node.tagName[1] = 63
                          THEN open \o <<63, CLOSE_BRACKET>>
                          ELSE open \o <<CLOSE_BRACKET>>
                               \o write(node.children, depth + 1, isCompact, so)
                               \o (IF ~isCompact /\ indent # <<>> /\ hasEl
                                   THEN <<10>> \o Repeat(indent, depth)
                                   ELSE <<>>)
                               \o <<OPEN_BRACKET, SLASH>> \o node.tagName
                               \o <<CLOSE_BRACKET>>
         IN  this \o write(Tail(nodes), depth, compact, so)

\* stringify of a list of nodes (a single node is the list holding it).
stringify(O, so) ==
    LET out == write(O, 0, FALSE, so)
    IN  IF out # <<>> /\ out[1] = 10 THEN Tail(out) ELSE out

---------------------------------------------------------------------------
(* simplify.  A value is a string, an object (a mapping from keys to       *)
(* values), a list of values, or an attributes record under _attributes.  *)

StringOf(s) == [t |-> "string", v |-> s]
ObjectOf(f) == [t |-> "object", v |-> f]
ListOf(l) == [t |-> "list", v |-> l]
AttributesOf(a) == [t |-> "attributes", v |-> a]

\* f with key k set to v.
SetKey(f, k, v) == [x \in (DOMAIN f) \cup {k} |-> IF x = k THEN v ELSE f[x]]

\* kids._attributes = child.attributes, when the child has attributes and
\* kids is an object.
withAttributes(kids, child) ==
    IF Len(child.attributes) > 0 /\ kids.t = "object"
    THEN ObjectOf(SetKey(kids.v, LIT_attributes, AttributesOf(child.attributes)))
    ELSE kids

\* if (out[key].length === 1) out[key] = out[key][0]
collapse(list) == IF Len(list) = 1 THEN list[1] ELSE ListOf(list)

\* The property names every object inherits from Object.prototype:
\* constructor,
\* __proto__,
\* hasOwnProperty,
\* isPrototypeOf,
\* propertyIsEnumerable,
\* toLocaleString,
\* toString,
\* valueOf,
\* __defineGetter__,
\* __defineSetter__,
\* __lookupGetter__,
\* __lookupSetter__.
ObjectPrototypeNames ==
    {<<99, 111, 110, 115, 116, 114, 117, 99, 116, 111, 114>>,
     <<95, 95, 112, 114, 111, 116, 111, 95, 95>>,
     <<104, 97, 115, 79, 119, 110, 80, 114, 111, 112, 101, 114, 116, 121>>,
     <<105, 115, 80, 114, 111, 116, 111, 116, 121, 112, 101, 79, 102>>,
     <<112, 114, 111, 112, 101, 114, 116, 121, 73, 115, 69, 110, 117, 109, 101, 114, 97, 98, 108, 101>>,
     <<116, 111, 76, 111, 99, 97, 108, 101, 83, 116, 114, 105, 110, 103>>,
     <<116, 111, 83, 116, 114, 105, 110, 103>>,
     <<118, 97, 108, 117, 101, 79, 102>>,
     <<95, 95, 100, 101, 102, 105, 110, 101, 71, 101, 116, 116, 101, 114, 95, 95>>,
     <<95, 95, 100, 101, 102, 105, 110, 101, 83, 101, 116, 116, 101, 114, 95, 95>>,
     <<95, 95, 108, 111, 111, 107, 117, 112, 71, 101, 116, 116, 101, 114, 95, 95>>,
     <<95, 95, 108, 111, 111, 107, 117, 112, 83, 101, 116, 116, 101, 114, 95, 95>>}

\* out[child.tagName].push(kids) on an inherited property, which has no push.
TypeError == [t |-> "TypeError"]

RECURSIVE simplify(_)
simplify(children) ==
    IF Len(children) = 0 THEN StringOf(<<>>)
    ELSE IF Len(children) = 1 /\ IsText(children[1]) THEN StringOf(children[1].text)
    ELSE LET elements == SelectSeq(children, IsElement)
             names == {elements[i].tagName : i \in 1..Len(elements)}
             named(name) == SelectSeq(elements, LAMBDA c : c.tagName = name)
             kidsOf(name) ==
                 [i \in 1..Len(named(name)) |->
                     withAttributes(simplify(named(name)[i].children), named(name)[i])]
             thrown(kids) ==
                 \/ names \cap ObjectPrototypeNames # {}
                 \/ \E name \in names : \E i \in 1..Len(kids[name]) :
                       kids[name][i] = TypeError
             grouped(kids) ==
                 IF thrown(kids) THEN TypeError
                 ELSE ObjectOf([name \in names |-> collapse(kids[name])])
         IN  grouped([name \in names |-> kidsOf(name)])


LIT_value == <<118, 97, 108, 117, 101>>

\* { _attributes: parentAttributes, value: children[0] }
withValue(parentAttributes, text) ==
    ObjectOf(SetKey(SetKey(<<>>, LIT_attributes, AttributesOf(parentAttributes)),
                    LIT_value, StringOf(text)))

\* A slip: the loop of simplify that replaces a one-element list by its
\* element, run here as well.
pushed_collapsed(list) == IF Len(list) = 1 THEN list[1] ELSE ListOf(list)

\* out[child.tagName] after the loop: the list the values were pushed to,
\* which simplifyLostLess leaves as it is.
pushed(list) == ListOf(list)

\* simplifyLostLess: the lists are kept as lists, an empty children list
\* gives {}, and a single text child of an attribute-bearing parent gives
\* { _attributes, value }.
RECURSIVE simplifyLostLess(_, _)
simplifyLostLess(children, parentAttributes) ==
    IF Len(children) = 0 THEN ObjectOf(<<>>)
    ELSE IF Len(children) = 1 /\ IsText(children[1])
    THEN (IF Len(parentAttributes) > 0
          THEN withValue(parentAttributes, children[1].text)
          ELSE StringOf(children[1].text))
    ELSE LET elements == SelectSeq(children, IsElement)
             names == {elements[i].tagName : i \in 1..Len(elements)}
             named(name) == SelectSeq(elements, LAMBDA c : c.tagName = name)
             kidsOf(name) ==
                 [i \in 1..Len(named(name)) |->
                     withAttributes(simplifyLostLess(named(name)[i].children,
                                                     named(name)[i].attributes),
                                    named(name)[i])]
             thrown(kids) ==
                 \/ names \cap ObjectPrototypeNames # {}
                 \/ \E name \in names : \E i \in 1..Len(kids[name]) :
                       kids[name][i] = TypeError
             grouped(kids) ==
                 IF thrown(kids) THEN TypeError
                 ELSE ObjectOf([name \in names |-> pushed(kids[name])])
         IN  grouped([name \in names |-> kidsOf(name)])
---------------------------------------------------------------------------
(* The streaming adapters.  transformStream and transformWebStream run the *)
(* same transform on (data, position); they differ in how an item is       *)
(* handed on (this.push / controller.enqueue).                             *)

\* How many iterations of the scan loop one transform call may take before
\* the model reports it as not terminating.
MaxRounds == 12

\* An item handed on, with where it was found: at is the index of its '<'
\* in the whole input (base counts the characters sliced off data so far),
\* upto the index the cursor was left at, seen how much input had arrived.
Item(kind, value, at, upto, seen) ==
    [kind |-> kind, value |-> value, at |-> at, upto |-> upto, seen |-> seen]

\* The three characters after '<' start a comment.
IsStreamComment(d, p) ==
    /\ CharCodeAt(d, p) = EXCLAMATION
    /\ CharCodeAt(d, p + 1) = MINUS
    /\ CharCodeAt(d, p + 2) = MINUS

\* The options of the parse call: the adapter's parseOptions with pos,
\* parseNode and setPos set.
nodeOptions(po, p) == [po EXCEPT !.pos = p - 1, !.parseNode = TRUE]

\* The node is incomplete: the scan ran off the buffer or went back.
isIncomplete(d, pos, lastPos) == pos > Len(d) - 1 \/ pos < lastPos

\* data = data.slice(lastPos); position = 0; callback(); return
waitForMore(d, lastPos, out, b) ==
    [data |-> Slice(d, lastPos, Len(d)), position |-> 0, emitted |-> out,
     base |-> b + Len(d) - Len(Slice(d, lastPos, Len(d))), status |-> "ok"]

\* How one transform call ends: what it leaves in data and position, what
\* it has handed on, and whether it returned.
Ended(d, pos, out, b, status) ==
    [data |-> d, position |-> pos, emitted |-> out, base |-> b,
     status |-> status]

\* The while (true) loop of transform, after data += chunk.
RECURSIVE scan(_, _, _, _, _, _, _)
scan(d, pos0, lastPos, out, b, po, fuel) ==
    LET found(p) ==
            LET comment(cEnd) ==
                    IF cEnd = 0 - 1
                    THEN waitForMore(d, lastPos, out, b)
                    ELSE scan(d, cEnd + 1, cEnd,
                             IF po.keepComments
                             THEN Append(out,
                                      Item("comment",
                                           Substring(d, p - 1, cEnd + 3),
                                           b + p - 1, b + cEnd + 1, b + Len(d)))
                             ELSE out,
                             b, po, fuel - 1)
                node(r) ==
                    IF r.status = "throw" THEN Ended(d, p, out, b, "throw")
                    ELSE IF r.status = "diverged"
                    THEN Ended(d, p, out, b, "stalled")
                    ELSE IF isIncomplete(d, r.pos, lastPos)
                    THEN waitForMore(d, lastPos, out, b)
                    ELSE scan(d, r.pos, r.pos,
                             Append(out,
                                 Item("element", r.out, b + p - 1, b + r.pos,
                                      b + Len(d))),
                             b, po, fuel - 1)
            IN  IF p = 0 THEN Ended(d, lastPos, out, b, "ok")
                ELSE IF CharCodeAt(d, p) = SLASH
                THEN scan(d, p + 1, p + 1, out, b, po, fuel - 1)
                ELSE IF IsStreamComment(d, p)
                THEN comment(IndexOf(d, LIT_endComment, p + 3))
                ELSE node(parse(d, nodeOptions(po, p)))
    IN  IF fuel = 0 THEN Ended(d, pos0, out, b, "stalled")
        ELSE found(IndexOf(d, <<OPEN_BRACKET>>, pos0) + 1)

\* transform(chunk): data += chunk; let lastPos = 0; the loop.
transform(d, pos, out, b, po, chunk) ==
    scan(d \o chunk, pos, 0, out, b, po, MaxRounds)

---------------------------------------------------------------------------
(* Inputs.  An input text is built from fragments; a fragment is named by  *)
(* its own text, and Frag spells it as code units.                         *)

Frag(f) ==
    CASE     f = "<a>" -> <<60,97,62>>
      []  f = "</a>" -> <<60,47,97,62>>
      []  f = "<b>" -> <<60,98,62>>
      []  f = "</b>" -> <<60,47,98,62>>
      []  f = "</ab>" -> <<60,47,97,98,62>>
      []  f = "<a/>" -> <<60,97,47,62>>
      []  f = "<br>" -> <<60,98,114,62>>
      []  f = "</br>" -> <<60,47,98,114,62>>
      []  f = "<?p?>" -> <<60,63,112,63,62>>
      []  f = "t" -> <<116>>
      []  f = "u" -> <<117>>
      []  f = " " -> <<32>>
      []  f = ">" -> <<62>>
      []  f = "-" -> <<45>>
      []  f = "[" -> <<91>>
      []  f = "]" -> <<93>>
      []  f = "<!--c>-->" -> <<60,33,45,45,99,62,45,45,62>>
      []  f = "<!--" -> <<60,33,45,45>>
      []  f = "<![CDATA[t]]>" -> <<60,33,91,67,68,65,84,65,91,116,93,93,62>>
      []  f = "<![CDATA[" -> <<60,33,91,67,68,65,84,65,91>>
      []  f = "<!D" -> <<60,33,68>>
      []  f = "<script>" -> <<60,115,99,114,105,112,116,62>>
      []  f = "</script>" -> <<60,47,115,99,114,105,112,116,62>>
      []  f = "</" -> <<60,47>>
      []  f = "<b c='x" -> <<60,98,32,99,61,39,120>>
      []  f = " id=\"k\"" -> <<32,105,100,61,34,107,34>>
      []  f = "<b x=\" v\">" -> <<60,98,32,120,61,34,32,118,34,62>>
      []  f = "\n" -> <<10>>
      []  f = "<style>" -> <<60,115,116,121,108,101,62>>
      []  f = "</style>" -> <<60,47,115,116,121,108,101,62>>
      []  f = "<b x=\"v\">" -> <<60,98,32,120,61,34,118,34,62>>
      []  f = "<a" -> <<60,97>>
      []  f = "<input" -> <<60,105,110,112,117,116>>
      []  f = "</input>" -> <<60,47,105,110,112,117,116,62>>
      []  f = " b" -> <<32,98>>
      []  f = " b=\"\"" -> <<32,98,61,34,34>>
      []  f = " b=\"v\"" -> <<32,98,61,34,118,34>>
      []  f = " c1" -> <<32,99,49>>
      []  f = " c1=\"\"" -> <<32,99,49,61,34,34>>
      []  f = " c1=\"v\"" -> <<32,99,49,61,34,118,34>>
      []  f = " d" -> <<32,100>>
      []  f = " d=\"\"" -> <<32,100,61,34,34>>
      []  f = " d=\"v\"" -> <<32,100,61,34,118,34>>
      []  f = "<b _x=\"v\">" -> <<60,98,32,95,120,61,34,118,34,62>>
      []  f = "<a class=\"k\">" -> <<60,97,32,99,108,97,115,115,61,34,107,34,62>>
      []  f = "<b class=\"k\">" -> <<60,98,32,99,108,97,115,115,61,34,107,34,62>>
      []  f = "<b class=\"kk\">" -> <<60,98,32,99,108,97,115,115,61,34,107,107,34,62>>
      []  f = "<b class=\"j k\">" -> <<60,98,32,99,108,97,115,115,61,34,106,32,107,34,62>>
      []  f = "<b class=\"j\">" -> <<60,98,32,99,108,97,115,115,61,34,106,34,62>>
      []  f = "<b id=\"k\">" -> <<60,98,32,105,100,61,34,107,34,62>>
      []  f = "<a id=\"k\">" -> <<60,97,32,105,100,61,34,107,34,62>>
      []  f = "<b id=\"kk\">" -> <<60,98,32,105,100,61,34,107,107,34,62>>
      []  f = "<valueOf/>" -> <<60,118,97,108,117,101,79,102,47,62>>
      []  f = "<valueOf x=\"v\"/>" -> <<60,118,97,108,117,101,79,102,32,120,61,34,118,34,47,62>>
      []  f = "<b class=\"j_ k\">" -> <<60,98,32,99,108,97,115,115,61,34,106,95,32,107,34,62>>

RECURSIVE Flatten(_)
Flatten(fs) == IF fs = <<>> THEN <<>> ELSE Frag(Head(fs)) \o Flatten(Tail(fs))

\* All sequences of at most n members of set.
RECURSIVE SeqsUpTo(_, _)
SeqsUpTo(set, n) ==
    IF n = 0 THEN {<<>>}
    ELSE LET shorter == SeqsUpTo(set, n - 1)
         IN  shorter \cup {Append(q, x) : q \in {r \in shorter : Len(r) = n - 1}, x \in set}

\* No operation has produced this value yet.
None == [status |-> "none"]

NoStream ==
    /\ chunks = <<>>
    /\ data = <<>>
    /\ position = 0
    /\ base = 0
    /\ emitted = <<>>
    /\ streamStatus = "ok"

streamVars == <<chunks, data, position, base, emitted, streamStatus>>

\* A run of the pure pipeline starts from an input text and options.
Input(fs, o) ==
    /\ given = fs
    /\ S = Flatten(fs)
    /\ opts = o
    /\ phase = "input"
    /\ res = None
    /\ res2 = None
    /\ str = <<>>
    /\ simp = None
    /\ NoStream

---------------------------------------------------------------------------
(* The operations, as actions of the pipeline.                             *)

\* parse(S, options)
Parse ==
    /\ phase = "input"
    /\ res' = parse(S, opts)
    /\ phase' = "parsed"
    /\ UNCHANGED <<S, opts, res2, str, simp, given, streamVars>>

\* stringify(parse(S))
Stringify ==
    /\ phase = "parsed"
    /\ res.status = "ok"
    /\ str' = stringify(res.out, NoStringifyOptions)
    /\ phase' = "stringified"
    /\ UNCHANGED <<S, opts, res, res2, simp, given, streamVars>>

\* parse(str): the written text parsed again, with no options.
Reparse ==
    /\ phase = "stringified"
    /\ res2' = parse(str, DefaultOptions)
    /\ phase' = "reparsed"
    /\ UNCHANGED <<S, opts, res, str, simp, given, streamVars>>

\* simplify(parse(S))
Simplify ==
    /\ phase = "parsed"
    /\ res.status = "ok"
    /\ simp' = simplify(res.out)
    /\ phase' = "simplified"
    /\ UNCHANGED <<S, opts, res, res2, str, given, streamVars>>

\* simplifyLostLess(parse(S))
SimplifyLostLess ==
    /\ phase = "parsed"
    /\ res.status = "ok"
    /\ simp' = simplifyLostLess(res.out, <<>>)
    /\ phase' = "simplifiedLostLess"
    /\ UNCHANGED <<S, opts, res, res2, str, given, streamVars>>

\* The predicates filter is called with.
Predicates ==
    {TagNameIs(<<97>>), TagNameIs(<<98>>), DepthIs(1), IndexIs(0),
     PathIs(<<48, 46, 97>>), HasAttributes}

\* filter(parse(S), f)
Filter ==
    /\ phase = "parsed"
    /\ res.status = "ok"
    /\ \E f \in Predicates : res2' = [f |-> f, out |-> filter(res.out, f, 0, <<>>)]
    /\ phase' = "filtered"
    /\ UNCHANGED <<S, opts, res, str, simp, given, streamVars>>

\* toContentString(parse(S, options))
ToContentString ==
    /\ phase = "parsed"
    /\ res.status = "ok"
    /\ str' = toContentString(res.out)
    /\ phase' = "content"
    /\ UNCHANGED <<S, opts, res, res2, simp, given, streamVars>>

\* The options stringify is called with: patterns that match the name a
\* or the name b, indentSpaces absent, 0 or 2.
StringifyOptionsSet ==
    [skipTags : {{}, {<<97>>}, {<<98>>}},
     stripParams : {{}},
     compactTags : {{}, {<<97>>}, {<<98>>}},
     indentSpaces : {<<>>, <<0>>, <<2>>}]

\* stringify(parse(S), options)
StringifyWith ==
    /\ phase = "parsed"
    /\ res.status = "ok"
    /\ \E so \in StringifyOptionsSet :
          /\ str' = stringify(res.out, so)
          /\ res2' = [so |-> so]
    /\ phase' = "written"
    /\ UNCHANGED <<S, opts, res, simp, given, streamVars>>

\* The class names and ids the lookups are called with: "k" and "j".
LookupNames == {<<107>>, <<106>>}

\* getElementsByClassName(S, name)
GetElementsByClassName ==
    /\ phase = "input"
    /\ \E name \in LookupNames :
          res' = [arg |-> name, found |-> getElementsByClassName(S, name)]
    /\ phase' = "byClassName"
    /\ UNCHANGED <<S, opts, res2, str, simp, given, streamVars>>

\* getElementById(S, id)
GetElementById ==
    /\ phase = "input"
    /\ \E id \in LookupNames :
          res' = [arg |-> id, found |-> getElementById(S, id)]
    /\ phase' = "byId"
    /\ UNCHANGED <<S, opts, res2, str, simp, given, streamVars>>

\* The comment fragments, terminated and not.
CommentFrags == {"<!--c>-->", "<!--"}

\* The fragments up to the first unterminated comment.
RECURSIVE BeforeOpenComment(_)
BeforeOpenComment(fs) ==
    IF fs = <<>> \/ Head(fs) = "<!--" THEN <<>>
    ELSE <<Head(fs)>> \o BeforeOpenComment(Tail(fs))

\* The input with every comment removed.
WithoutComments(fs) ==
    SelectSeq(BeforeOpenComment(fs), LAMBDA f : f \notin CommentFrags)

\* parse(S', options), S' the input without its comments
ParseStripped ==
    /\ phase = "parsed"
    /\ res2' = parse(Flatten(WithoutComments(given)), opts)
    /\ phase' = "compared"
    /\ UNCHANGED <<S, opts, res, str, simp, given, streamVars>>

\* What one transform call leaves behind.
Deliver(r) ==
    /\ data' = r.data
    /\ position' = r.position
    /\ emitted' = r.emitted
    /\ base' = r.base
    /\ streamStatus' = r.status

\* The adapter's transform, called with the next chunk of the input.
Transform ==
    /\ phase = "stream"
    /\ chunks # <<>>
    /\ streamStatus = "ok"
    /\ Deliver(transform(data, position, emitted, base, opts, Head(chunks)))
    /\ chunks' = Tail(chunks)
    /\ UNCHANGED <<S, opts, phase, res, res2, str, simp, given>>

---------------------------------------------------------------------------
(* Close tags.                                                             *)

MaxCloseFrags == 5

CloseFrags == {"<a>", "<b>", "</a>", "</b>", "</ab>", "t"}

InitClose ==
    \E fs \in SeqsUpTo(CloseFrags, MaxCloseFrags) : Input(fs, DefaultOptions)

NextClose == Parse

SpecClose == InitClose /\ [][NextClose]_vars

(* What the fragments are, for stating what a text built from them means.  *)

TextFrags == {"t", "u", " "}
CloseFragNames == [f \in {"</a>", "</b>", "</ab>", "</br>"} |->
                      SubSeq(Frag(f), 3, Len(Frag(f)) - 1)]
CloseFragSet == DOMAIN CloseFragNames
OpenFragNames == ("<a>" :> <<97>>) @@ ("<b>" :> <<98>>)
OpenFragSet == DOMAIN OpenFragNames

\* sub occurs in s as a substring.
Contains(s, sub) ==
    \E i \in 0..(Len(s) - Len(sub)) : SubSeq(s, i + 1, i + Len(sub)) = sub

\* The elements being read, innermost last; frame 1 is the top-level list.
Frame(name, attributes) == [name |-> name, attributes |-> attributes, children |-> <<>>]

AddChild(stack, child) ==
    [stack EXCEPT ![Len(stack)].children = Append(@, child)]

\* The innermost element ends and becomes a child of the one around it.
EndElement(stack) ==
    LET top == stack[Len(stack)]
    IN  AddChild(SubSeq(stack, 1, Len(stack) - 1),
                 Element(top.name, top.attributes, top.children))

RECURSIVE EndAll(_)
EndAll(stack) == IF Len(stack) = 1 THEN stack[1].children ELSE EndAll(EndElement(stack))

\* A text fragment joins the text fragment right before it.
AddText(stack, fs, i) ==
    LET kids == stack[Len(stack)].children
    IN  IF i > 1 /\ fs[i - 1] \in TextFrags
        THEN [stack EXCEPT ![Len(stack)].children =
                 [kids EXCEPT ![Len(kids)] = Text(kids[Len(kids)].text \o Frag(fs[i]))]]
        ELSE AddChild(stack, Text(Frag(fs[i])))

\* What a list of open tags, close tags and text runs means when a close
\* tag must contain the name of the element being read: "throw" on a close
\* tag that does not, otherwise the tree in which each close tag ends the
\* innermost element and what follows is read after it.  "toplevel": a
\* close tag stands where no element is being read.
RECURSIVE CloseRule(_, _, _)
CloseRule(fs, i, stack) ==
    IF i > Len(fs) THEN [status |-> "ok", out |-> EndAll(stack)]
    ELSE IF fs[i] \in OpenFragSet
    THEN CloseRule(fs, i + 1, Append(stack, Frame(OpenFragNames[fs[i]], <<>>)))
    ELSE IF fs[i] \in CloseFragSet
    THEN IF Len(stack) = 1 THEN [status |-> "toplevel"]
         ELSE IF ~Contains(CloseFragNames[fs[i]], stack[Len(stack)].name)
         THEN [status |-> "throw"]
         ELSE CloseRule(fs, i + 1, EndElement(stack))
    ELSE CloseRule(fs, i + 1, AddText(stack, fs, i))

C2_Expected == CloseRule(given, 1, <<Frame(<<>>, <<>>)>>)

\* C2: a close tag whose text does not contain the name of the element
\* whose children are being read makes parse raise an error (no result);
\* one whose text contains it ends that element's children list, and the
\* scan goes on after its '>'.
C2_CloseTagRule ==
    (phase = "parsed" /\ C2_Expected.status # "toplevel")
        => /\ res.status = C2_Expected.status
           /\ (res.status = "ok" => res.out = C2_Expected.out)

\* A close tag that only contains the name has ended an element, and a later
\* one that does not contain the name of the element then read raised.
C2_Witness ==
    /\ phase = "parsed"
    /\ given = <<"<b>", "<a>", "</ab>", "t", "</a>">>
    /\ res.status = "throw"

---------------------------------------------------------------------------
(* Round trip: stringify(parse(x)) for well-formed single-root documents.  *)
(* A document is an optional comment or processing instruction, one root   *)
(* element, and an optional comment; no fragment brings whitespace.        *)

\* How many fragments a root element may hold, its own tags included.
MaxDocFrags == 5

\* The end tag that closes each start tag.
EndTagOf ==
    [f \in {"<a>", "<b x=\"v\">", "<b _x=\"v\">", "<br>", "<script>"} |->
        CASE f = "<a>" -> "</a>"
          [] f = "<br>" -> "</br>"
          [] f = "<script>" -> "</script>"
          [] OTHER -> "</b>"]

StartTags == DOMAIN EndTagOf

\* Content that is one fragment: text, an empty-element tag, a comment, a
\* processing instruction, a CDATA section.
LeafFrags == {"t", "<a/>", "<!--c>-->", "<?p?>", "<![CDATA[t]]>"}

\* Every well-formed content of at most n fragments.
RECURSIVE Forest(_)
Forest(n) ==
    IF n = 0 THEN {<<>>}
    ELSE {<<>>}
         \cup {<<l>> \o r : l \in LeafFrags, r \in Forest(n - 1)}
         \cup UNION {{<<o>> \o c \o <<EndTagOf[o]>> \o r :
                         o \in StartTags, c \in Forest(k), r \in Forest(n - 2 - k)} :
                     k \in 0..(n - 2)}

\* Every root element of at most n fragments.
RootElements(n) ==
    {<<"<a/>">>}
    \cup {<<o>> \o c \o <<EndTagOf[o]>> : o \in StartTags, c \in Forest(n - 2)}

Documents ==
    {p \o e \o q : p \in {<<>>, <<"<!--c>-->">>, <<"<?p?>">>},
                   e \in RootElements(MaxDocFrags),
                   q \in {<<>>, <<"<!--c>-->">>}}

InitRoundTrip == \E fs \in Documents : Input(fs, DefaultOptions)

NextRoundTrip == Parse \/ Stringify

SpecRoundTrip == InitRoundTrip /\ [][NextRoundTrip]_vars

\* The fragments of a document written with start and end tags only, whose
\* attribute names begin with a letter, without empty-element tags, names of
\* the self-closing list, comments, CDATA sections or processing
\* instructions.
PlainFrags == {"<a>", "</a>", "<b x=\"v\">", "</b>", "t", "<script>", "</script>"}

\* Every script element holds text only.
ScriptHoldsText(fs) ==
    \A i \in 1..Len(fs) :
        fs[i] = "<script>" =>
            \E j \in (i + 1)..Len(fs) :
                /\ fs[j] = "</script>"
                /\ \A k \in (i + 1)..(j - 1) : fs[k] \in TextFrags

C1_Plain ==
    /\ \A i \in 1..Len(given) : given[i] \in PlainFrags
    /\ ScriptHoldsText(given)

C1_Returns ==
    /\ phase = "parsed" => res.status = "ok"
    /\ phase = "stringified" => str = S

\* C1 as stated: for every well-formed single-root document with
\* double-quoted attribute values and no redundant whitespace,
\* stringify(parse(x)) with no options returns exactly x.
C1_RoundTripAll == C1_Returns

\* C1 amended: the same for documents in which every element has a start
\* and an end tag, no element bears a name of the self-closing list, every
\* attribute name begins with a letter, script elements hold text only, and
\* there are no comments, CDATA sections or processing instructions.
C1_RoundTrip == C1_Plain => C1_Returns

C1_Witness ==
    /\ phase = "stringified"
    /\ given = <<"<a>", "<b x=\"v\">", "t", "</b>", "</a>">>
    /\ str = S

---------------------------------------------------------------------------
(* The streaming adapters fed an input text in chunks.                     *)

\* How many fragments an input of the adapter has, and at how many places
\* it is cut into chunks.
MaxStreamFrags == 3
MaxCuts == 2

StreamFrags == {"<a>", "</a>", "t", "<!--c>-->", "<!--", "<script>", "</script>"}

\* The cut places: a nondecreasing sequence of indexes into the text.
CutSeqs(n) ==
    {c \in [1..MaxCuts -> 0..n] : \A i \in 1..(MaxCuts - 1) : c[i] <= c[i + 1]}

\* The text cut at those places, as the non-empty chunks in order.
ChunksOf(s, cuts) ==
    LET pts == <<0>> \o cuts \o <<Len(s)>>
        pieces == [i \in 1..(Len(pts) - 1) |-> Slice(s, pts[i], pts[i + 1])]
    IN  SelectSeq(pieces, LAMBDA c : c # <<>>)

\* A new adapter (offset 0) and the chunks it will be given.
StreamInput(fs, cuts, o) ==
    /\ given = fs
    /\ S = Flatten(fs)
    /\ opts = o
    /\ phase = "stream"
    /\ res = None
    /\ res2 = None
    /\ str = <<>>
    /\ simp = None
    /\ chunks = ChunksOf(Flatten(fs), cuts)
    /\ data = <<>>
    /\ position = 0
    /\ base = 0
    /\ emitted = <<>>
    /\ streamStatus = "ok"

InitStream ==
    \E n \in 1..MaxStreamFrags : \E fs \in [1..n -> StreamFrags] :
        \E cuts \in CutSeqs(Len(Flatten(fs))) : \E kc \in BOOLEAN :
            StreamInput(fs, cuts, [DefaultOptions EXCEPT !.keepComments = kc])

NextStream == Transform

SpecStream == InitStream /\ [][NextStream]_vars

\* The node parse-single-node returns at index at of the whole input.
NodeAt(at) == parse(S, nodeOptions(opts, at + 1))

\* C3: every emitted element node equals the node parse-single-node
\* returns at the same place in the complete concatenated input (whenever
\* the transform calls so far have returned).
C3_EmittedNodesComplete ==
    streamStatus = "ok" =>
        \A i \in 1..Len(emitted) :
            (emitted[i].kind = "element" /\ NodeAt(emitted[i].at).status = "ok")
                => emitted[i].value = NodeAt(emitted[i].at).out

\* C4: a comment is emitted only with keepComments on and its terminator
\* in the buffer, as one item holding the verbatim comment text, and the
\* items come in document order (whenever the transform calls so far have
\* returned).
C4_CommentItems ==
    streamStatus = "ok" =>
    /\ \A i \in 1..Len(emitted) :
          emitted[i].kind = "comment" =>
              /\ opts.keepComments
              /\ Len(emitted[i].value) >= 7
              /\ emitted[i].value =
                     Slice(S, emitted[i].at, emitted[i].at + Len(emitted[i].value))
              /\ Slice(emitted[i].value, 0, 4) = <<60, 33, 45, 45>>
              /\ IndexOf(emitted[i].value, LIT_endComment, 4)
                     = Len(emitted[i].value) - 3
              /\ emitted[i].at + Len(emitted[i].value) <= emitted[i].seen
    /\ \A i \in 1..Len(emitted) : \A j \in 1..Len(emitted) :
          i < j => emitted[i].at < emitted[j].at

---------------------------------------------------------------------------
(* Script and style elements: a start tag, content, and the closing tag    *)
(* (or the end of the input).                                              *)

\* How many fragments the content of a script or style element has.
MaxRawFrags == 3

RawTags == {"<script>", "<style>"}

RawName(f) == IF f = "<script>" THEN LIT_script ELSE LIT_style

RawEnd(f) == IF f = "<script>" THEN "</script>" ELSE "</style>"

RawContentFrags == {"t", "u", " ", "<a>", "</a>", "<!--"}

InitRaw ==
    \E o \in RawTags : \E n \in 0..MaxRawFrags :
        \E c \in [1..n -> RawContentFrags] : \E e \in {<<>>, <<RawEnd(o)>>} :
            Input(<<o>> \o c \o e, DefaultOptions)

NextRaw == Parse

SpecRaw == InitRaw /\ [][NextRaw]_vars

\* The content as written: the fragments after the start tag, without the
\* closing tag.
C5_Content ==
    Flatten(SelectSeq(Tail(given), LAMBDA f : f \in RawContentFrags))

\* C5: parse stores the content of a script or style element as exactly
\* one text child holding the content verbatim: no tag in it is read as
\* markup and its final character is not cut off.
C5_RawContentVerbatim ==
    phase = "parsed" =>
        /\ res.status = "ok"
        /\ Len(res.out) >= 1
        /\ res.out[1] = Element(RawName(given[1]), <<>>, <<Text(C5_Content)>>)

---------------------------------------------------------------------------
(* Attributes: a start tag with up to MaxAttrs attributes of distinct      *)
(* names, each written without a value, with an empty value or with the    *)
(* value v, in every order.                                                *)

MaxAttrs == 3

\* What each attribute fragment says: the name, and the value as written
\* (absent, "" or "v").
AttrWritten ==
    [f \in {" b", " b=\"\"", " b=\"v\"", " c1", " c1=\"\"", " c1=\"v\"",
            " d", " d=\"\"", " d=\"v\""} |->
        [name |-> CASE f \in {" b", " b=\"\"", " b=\"v\""} -> <<98>>
                    [] f \in {" c1", " c1=\"\"", " c1=\"v\""} -> <<99, 49>>
                    [] OTHER -> <<100>>,
         form |-> CASE f \in {" b", " c1", " d"} -> "none"
                    [] f \in {" b=\"\"", " c1=\"\"", " d=\"\""} -> "empty"
                    [] OTHER -> "value"]]

AttrFrags == DOMAIN AttrWritten

DistinctNames(as) ==
    \A i \in 1..Len(as) : \A j \in 1..Len(as) :
        i # j => AttrWritten[as[i]].name # AttrWritten[as[j]].name

InitAttr ==
    \E n \in 0..MaxAttrs : \E as \in [1..n -> AttrFrags] :
        /\ DistinctNames(as)
        /\ \/ Input(<<"<a">> \o as \o <<">", "</a>">>, DefaultOptions)
           \/ Input(<<"<input">> \o as \o <<">">>, DefaultOptions)

NextAttr == Parse \/ Stringify

SpecAttr == InitAttr /\ [][NextAttr]_vars

\* The attributes as written, in order.
C6_Written == SelectSeq(given, LAMBDA f : f \in AttrFrags)

\* The three outcomes: no value, the empty string, the string "v".
C6_Outcome(form) ==
    CASE form = "none" -> [null |-> TRUE]
      [] form = "empty" -> [null |-> FALSE, string |-> <<>>]
      [] OTHER -> [null |-> FALSE, string |-> <<118>>]

C6_Expected ==
    [i \in 1..Len(C6_Written) |->
        [name |-> AttrWritten[C6_Written[i]].name,
         value |-> C6_Outcome(AttrWritten[C6_Written[i]].form)]]

C6_TagName == IF given[1] = "<a" THEN <<97>> ELSE LIT_input

\* C6: parse maps an attribute without a value to null, one written
\* name="" to the empty string and one written name="v" to "v", for every
\* tag and every order of the attributes, and stringify writes the
\* attribute without a value back as the bare name.
C6_AttributeValues ==
    /\ phase \in {"parsed", "stringified"} =>
          /\ res.status = "ok"
          /\ res.out = <<Element(C6_TagName, C6_Expected, <<>>)>>
    /\ phase = "stringified" =>
          str = <<OPEN_BRACKET>> \o C6_TagName \o Flatten(C6_Written)
                    \o <<CLOSE_BRACKET, OPEN_BRACKET, SLASH>> \o C6_TagName
                    \o <<CLOSE_BRACKET>>

C6_Witness ==
    /\ phase = "stringified"
    /\ given = <<"<input", " b", " c1=\"\"", " d=\"v\"", ">">>
    /\ res.out[1].attributes[1].value.null
    /\ res.out[1].attributes[2].value = [null |-> FALSE, string |-> <<>>]
    /\ str = S \o <<60, 47>> \o LIT_input \o <<62>>

---------------------------------------------------------------------------
(* Comments dropped by default: parse of an input against parse of the     *)
(* input without its comments.  An input is a run of tags, text and        *)
(* comments, possibly ending in a comment that is never terminated.        *)

MaxCommentFrags == 4

CommentDocFrags == {"<a>", "</a>", "t", " ", "<!--c>-->"}

InitComment ==
    \E n \in 0..MaxCommentFrags : \E fs \in [1..n -> CommentDocFrags] :
        \E tail \in {<<>>, <<"<!--">>, <<"<!--", "t">>} : \E kw \in BOOLEAN :
            Input(fs \o tail, [DefaultOptions EXCEPT !.keepWhitespace = kw])

NextComment == Parse \/ ParseStripped

SpecComment == InitComment /\ [][NextComment]_vars

\* Text that parse keeps as a child: non-blank text, or any text under
\* keepWhitespace.
C7_KeptText(f) == f = "t" \/ (f = " " /\ opts.keepWhitespace)

\* A comment, or a run of comments and text, stands between two texts that
\* parse keeps.
C7_SeparatesText ==
    \E i \in 1..Len(given) : \E j \in 1..Len(given) : \E k \in 1..Len(given) :
        /\ i < j /\ j < k
        /\ C7_KeptText(given[i])
        /\ given[j] \in CommentFrags
        /\ C7_KeptText(given[k])
        /\ \A m \in i..k : given[m] \in TextFrags \cup CommentFrags
        /\ \A m \in 1..k : given[m] # "<!--"

C7_SameResult ==
    phase = "compared" =>
        /\ res.status = res2.status
        /\ res.status = "ok" => res.out = res2.out

---------------------------------------------------------------------------
(* Unterminated constructs: some open elements, maybe a text, then the     *)
(* opener of a comment, a CDATA section or a declaration, and a tail in    *)
(* which the construct's terminator may or may not occur.                  *)

MaxOpenDepth == 2
MaxTailFrags == 3

Openers == {"<!--", "<![CDATA[", "<!D"}

TailFrags == {"t", "-", ">", "[", "]", "<a>"}

InitUnterminated ==
    \E d \in 0..MaxOpenDepth : \E opens \in [1..d -> {"<a>", "<b>"}] :
        \E pre \in {<<>>, <<"t">>} : \E opener \in Openers :
            \E n \in 0..MaxTailFrags : \E tail \in [1..n -> TailFrags] :
                \E kc \in BOOLEAN :
                    Input(opens \o pre \o <<opener>> \o tail,
                          [DefaultOptions EXCEPT !.keepComments = kc])

NextUnterminated == Parse

SpecUnterminated == InitUnterminated /\ [][NextUnterminated]_vars

\* Where the opener stands in given, and in the text.
C8_OpenerAt == CHOOSE i \in 1..Len(given) : given[i] \in Openers

C8_Start == Len(Flatten(SubSeq(given, 1, C8_OpenerAt - 1)))

C8_Tail == Flatten(SubSeq(given, C8_OpenerAt + 1, Len(given)))

\* No '>' of the tail stands outside square brackets, whether brackets are
\* counted or only the last one is looked at.
RECURSIVE C8_NoEnd(_, _, _)
C8_NoEnd(fs, depth, inside) ==
    IF fs = <<>> THEN TRUE
    ELSE IF Head(fs) = "[" THEN C8_NoEnd(Tail(fs), depth + 1, TRUE)
    ELSE IF Head(fs) = "]"
    THEN C8_NoEnd(Tail(fs), IF depth > 0 THEN depth - 1 ELSE 0, FALSE)
    ELSE IF Head(fs) \in {">", "<a>"}
    THEN depth > 0 /\ inside /\ C8_NoEnd(Tail(fs), depth, inside)
    ELSE C8_NoEnd(Tail(fs), depth, inside)

\* The construct is never terminated.
C8_Unterminated ==
    CASE given[C8_OpenerAt] = "<!--" ->
             ~Contains(SubSeq(S, C8_Start + 1, Len(S)), LIT_endComment)
      [] given[C8_OpenerAt] = "<![CDATA[" -> ~Contains(C8_Tail, LIT_endCdata)
      [] OTHER -> C8_NoEnd(SubSeq(given, C8_OpenerAt + 1, Len(given)), 0, FALSE)

\* The children the construct leaves when it runs to the end of the input.
C8_Construct ==
    CASE given[C8_OpenerAt] = "<!--" ->
             IF opts.keepComments
             THEN <<Text(<<60, 33, 45, 45>> \o C8_Tail)>>
             ELSE <<>>
      [] given[C8_OpenerAt] = "<![CDATA[" -> <<Text(C8_Tail)>>
      [] OTHER -> <<Text(<<33, 68>> \o C8_Tail)>>

\* The open elements around the children.
RECURSIVE C8_Wrap(_, _)
C8_Wrap(fs, inner) ==
    IF fs = <<>> THEN inner
    ELSE IF Head(fs) = "t" THEN <<Text(<<116>>)>> \o C8_Wrap(Tail(fs), inner)
    ELSE <<Element(OpenFragNames[Head(fs)], <<>>, C8_Wrap(Tail(fs), inner))>>

C8_Expected == C8_Wrap(SubSeq(given, 1, C8_OpenerAt - 1), C8_Construct)

\* C8: parse raises no error for an unterminated comment, CDATA section or
\* declaration: the construct runs to the end of the input and parse
\* returns a result (the CDATA content up to there as a text child).
C8_NoErrorUnterminated ==
    (phase = "parsed" /\ C8_Unterminated) =>
        /\ res.status = "ok"
        /\ res.pos >= Len(S)
        /\ res.out = C8_Expected

C8_Witness ==
    /\ phase = "parsed"
    /\ given = <<"<a>", "t", "<![CDATA[", "t", "]", ">">>
    /\ C8_Unterminated
    /\ res.out = <<Element(<<97>>, <<>>, <<Text(<<116>>), Text(<<116, 93, 62>>)>>)>>

---------------------------------------------------------------------------
(* The lookups, on well-formed content whose start tags carry class and id *)
(* attributes.                                                             *)

MaxLookupFrags == 4

\* The start tags of the lookup documents, each with the text of its class
\* attribute and of its id attribute (<<>> when it has none).
LookupTags ==
    [f \in {"<a>", "<a class=\"k\">", "<b class=\"kk\">", "<b class=\"j k\">",
            "<b class=\"j\">", "<b class=\"j_ k\">", "<b id=\"k\">",
            "<a id=\"k\">", "<b id=\"kk\">"} |->
        CASE f = "<a class=\"k\">" -> [end |-> "</a>", class |-> <<107>>, id |-> <<>>]
          [] f = "<b class=\"kk\">" -> [end |-> "</b>", class |-> <<107, 107>>, id |-> <<>>]
          [] f = "<b class=\"j k\">" -> [end |-> "</b>", class |-> <<106, 32, 107>>, id |-> <<>>]
          [] f = "<b class=\"j\">" -> [end |-> "</b>", class |-> <<106>>, id |-> <<>>]
          [] f = "<b class=\"j_ k\">" -> [end |-> "</b>", class |-> <<106, 95, 32, 107>>, id |-> <<>>]
          [] f = "<b id=\"k\">" -> [end |-> "</b>", class |-> <<>>, id |-> <<107>>]
          [] f = "<a id=\"k\">" -> [end |-> "</a>", class |-> <<>>, id |-> <<107>>]
          [] f = "<b id=\"kk\">" -> [end |-> "</b>", class |-> <<>>, id |-> <<107, 107>>]
          [] OTHER -> [end |-> "</a>", class |-> <<>>, id |-> <<>>]]

\* Every well-formed content of at most n fragments over these tags.
RECURSIVE LookupForest(_)
LookupForest(n) ==
    IF n = 0 THEN {<<>>}
    ELSE {<<>>}
         \cup {<<"t">> \o r : r \in LookupForest(n - 1)}
         \cup UNION {{<<o>> \o c \o <<LookupTags[o].end>> \o r :
                         o \in DOMAIN LookupTags, c \in LookupForest(k),
                         r \in LookupForest(n - 2 - k)} :
                     k \in 0..(n - 2)}

InitLookup == \E fs \in LookupForest(MaxLookupFrags) : Input(fs, DefaultOptions)

NextLookup == GetElementsByClassName \/ GetElementById

SpecLookup == InitLookup /\ [][NextLookup]_vars

\* Is fragment i a start tag.
C9_IsStart(i) == given[i] \in DOMAIN LookupTags

\* The element that starts at fragment i, with its full subtree.
C9_ElementAt(i) ==
    parse(S, [DefaultOptions EXCEPT !.pos = Len(Flatten(SubSeq(given, 1, i - 1))),
                                    !.parseNode = TRUE]).out

\* The space-separated names of a class attribute text.
RECURSIVE C9_Names(_, _)
C9_Names(text, word) ==
    IF text = <<>> THEN (IF word = <<>> THEN {} ELSE {word})
    ELSE IF Head(text) = 32
    THEN (IF word = <<>> THEN {} ELSE {word}) \cup C9_Names(Tail(text), <<>>)
    ELSE C9_Names(Tail(text), Append(word, Head(text)))

\* The elements starting at the chosen fragments, in document order.
C9_Elements(chosen(_)) ==
    LET idx == SelectSeq([i \in 1..Len(given) |-> i], chosen)
    IN  [k \in 1..Len(idx) |-> C9_ElementAt(idx[k])]

C9_HasClass(i) ==
    C9_IsStart(i) /\ res.arg \in C9_Names(LookupTags[given[i]].class, <<>>)

C9_HasId(i) == C9_IsStart(i) /\ LookupTags[given[i]].id = res.arg

C9_ById ==
    phase = "byId" =>
        /\ res.found.status = "ok"
        /\ res.found.out =
              IF \E i \in 1..Len(given) : C9_HasId(i)
              THEN C9_Elements(C9_HasId)[1]
              ELSE Undefined

C9_ClassHolds(i) ==
    /\ C9_IsStart(i)
    /\ Includes(LookupTags[given[i]].class, res.arg)
    /\ \A m \in 1..Len(LookupTags[given[i]].class) :
          LookupTags[given[i]].class[m] \in
              {32, 45} \cup (48..57) \cup (65..90) \cup (97..122)

\* Fragment i lies inside the element that starts at fragment j.
C9_Inside(i, j) ==
    /\ j < i
    /\ C9_IsStart(j)
    /\ \A e \in (j + 1)..i :
          Cardinality({m \in (j + 1)..e : C9_IsStart(m)})
              >= Cardinality({m \in (j + 1)..e : given[m] \in {"</a>", "</b>"}})

C9_Outermost(i) ==
    C9_ClassHolds(i) /\ ~\E j \in 1..(i - 1) : C9_ClassHolds(j) /\ C9_Inside(i, j)

---------------------------------------------------------------------------
(* simplify, on the trees parse returns for well-formed content.           *)

MaxSimplifyFrags == 5

\* Content that is one fragment: text and empty elements.
SimplifyLeaves == {"t", "<a/>", "<valueOf/>"}

\* Every well-formed content of at most n fragments of elements a and b
\* (b with an attribute), text and empty elements.
RECURSIVE SimplifyForest(_)
SimplifyForest(n) ==
    IF n = 0 THEN {<<>>}
    ELSE {<<>>}
         \cup {<<l>> \o r : l \in SimplifyLeaves, r \in SimplifyForest(n - 1)}
         \cup UNION {{<<o>> \o c \o <<EndTagOf[o]>> \o r :
                         o \in {"<a>", "<b x=\"v\">"}, c \in SimplifyForest(k),
                         r \in SimplifyForest(n - 2 - k)} :
                     k \in 0..(n - 2)}

InitSimplify == \E fs \in SimplifyForest(MaxSimplifyFrags) : Input(fs, DefaultOptions)

NextSimplify == Parse \/ Simplify

SpecSimplify == InitSimplify /\ [][NextSimplify]_vars

\* The element children of the list that bear the name, in document order.
C10_Bearing(children, name) ==
    SelectSeq(children, LAMBDA c : IsElement(c) /\ c.tagName = name)

\* What the statement gives for a children list.
C10_Stated(children) ==
    IF Len(children) = 0 THEN StringOf(<<>>)
    ELSE IF Len(children) = 1 /\ IsText(children[1]) THEN StringOf(children[1].text)
    ELSE ObjectOf(
           [name \in {children[i].tagName :
                         i \in {j \in 1..Len(children) : IsElement(children[j])}} |->
               IF Len(C10_Bearing(children, name)) = 1
               THEN simplify(C10_Bearing(children, name)[1].children)
               ELSE ListOf([i \in 1..Len(C10_Bearing(children, name)) |->
                               simplify(C10_Bearing(children, name)[i].children)])])

\* C10: simplify returns "" for an empty children list and the text itself
\* for a single text child; for any other list it returns a mapping with
\* one key per distinct tag name among the element children, where a name
\* borne by exactly one child maps to that child's simplified children and
\* a name borne by several children maps to the list of their simplified
\* children in document order.
C10_SimplifyGroups == phase = "simplified" => simp = C10_Stated(res.out)

---------------------------------------------------------------------------
(* simplifyLostLess, on the trees parse returns for well-formed content.   *)

MaxLostLessFrags == 5

\* Every well-formed content of at most n fragments: elements opened by one
\* of tags, and leaves.
RECURSIVE Content(_, _, _)
Content(tags, leaves, n) ==
    IF n = 0 THEN {<<>>}
    ELSE {<<>>}
         \cup {<<l>> \o r : l \in leaves, r \in Content(tags, leaves, n - 1)}
         \cup UNION {{<<o>> \o c \o <<EndTagOf[o]>> \o r :
                         o \in tags, c \in Content(tags, leaves, k),
                         r \in Content(tags, leaves, n - 2 - k)} :
                     k \in 0..(n - 2)}

InitLostLess ==
    \E fs \in Content({"<a>", "<b x=\"v\">"}, {"t", "<a/>", "<valueOf x=\"v\"/>"},
                      MaxLostLessFrags) :
        Input(fs, DefaultOptions)

NextLostLess == Parse \/ SimplifyLostLess

SpecLostLess == InitLostLess /\ [][NextLostLess]_vars

\* value, produced for the children list, holds for every attribute-bearing
\* element of the list, and of the lists below, an object with the
\* element's attributes under _attributes (and a single text child under
\* value).
RECURSIVE C11_Kept(_, _)
C11_Kept(children, value) ==
    IF Len(children) = 0 \/ (Len(children) = 1 /\ IsText(children[1])) THEN TRUE
    ELSE /\ value.t = "object"
         /\ \A k \in 1..Len(children) :
               IsElement(children[k]) =>
                 LET name == children[k].tagName
                     i == Cardinality({j \in 1..k : IsElement(children[j])
                                                    /\ children[j].tagName = name})
                 IN  /\ name \in DOMAIN value.v
                     /\ value.v[name].t = "list"
                     /\ i <= Len(value.v[name].v)
                     /\ Len(children[k].attributes) > 0 =>
                           /\ value.v[name].v[i].t = "object"
                           /\ LIT_attributes \in DOMAIN value.v[name].v[i].v
                           /\ value.v[name].v[i].v[LIT_attributes]
                                 = AttributesOf(children[k].attributes)
                           /\ (Len(children[k].children) = 1
                               /\ IsText(children[k].children[1])) =>
                                 /\ LIT_value \in DOMAIN value.v[name].v[i].v
                                 /\ value.v[name].v[i].v[LIT_value]
                                       = StringOf(children[k].children[1].text)
                     /\ C11_Kept(children[k].children, value.v[name].v[i])

\* C11: simplifyLostLess keeps the attributes of every attribute-bearing
\* element at any depth of the tree: the value it produces for such an
\* element is an object that carries the element's attributes under
\* _attributes, whether the element has no children, a single text child
\* (text then under value) or several children.
C11_AttributesKept ==
    phase = "simplifiedLostLess" => C11_Kept(res.out, simp)

---------------------------------------------------------------------------
(* filter, on the trees parse returns for well-formed content.             *)

MaxFilterFrags == 5

InitFilter ==
    \E fs \in Content({"<a>", "<b x=\"v\">"}, {"t", "<a/>"}, MaxFilterFrags) :
        Input(fs, DefaultOptions)

NextFilter == Parse \/ Filter

SpecFilter == InitFilter /\ [][NextFilter]_vars

\* How many elements are open where fragment i stands.
C12_Depth(i) ==
    Cardinality({j \in 1..(i - 1) : given[j] \in {"<a>", "<b x=\"v\">"}})
        - Cardinality({j \in 1..(i - 1) : given[j] \in {"</a>", "</b>"}})

\* Does the predicate hold of the element that fragment i starts: by its
\* name, its depth, its being a first child, its being a child of a
\* document-first element a, its having attributes.
C12_Holds(f, i) ==
    CASE f.test = "tagName" ->
            IF f.arg = <<97>> THEN given[i] \in {"<a>", "<a/>"}
            ELSE given[i] = "<b x=\"v\">"
      [] f.test = "depth" -> C12_Depth(i) = f.arg
      [] f.test = "index" -> i = 1 \/ given[i - 1] \in {"<a>", "<b x=\"v\">"}
      [] f.test = "path" ->
            /\ C12_Depth(i) = 1
            /\ given[1] = "<a>"
            /\ \A j \in 2..i : C12_Depth(j) >= 1
      [] OTHER -> given[i] = "<b x=\"v\">"

C12_Selected(i) ==
    /\ given[i] \in {"<a>", "<b x=\"v\">", "<a/>"}
    /\ C12_Holds(res2.f, i)

\* C12: filter returns exactly the elements of the tree, at any depth, for
\* which the predicate holds, in document (pre-order) order, and it descends
\* into the children of every element whether or not that element matched;
\* text children are never passed to the predicate.
C12_FilterExact ==
    phase = "filtered" => res2.out = C9_Elements(C12_Selected)

\* C12: filter has returned an element and, after it, one of its own
\* children.
C12_Witness ==
    /\ phase = "filtered"
    /\ Len(res2.out) >= 2
    /\ \E k \in 1..Len(res2.out[1].children) :
          res2.out[1].children[k] = res2.out[2]

---------------------------------------------------------------------------
(* toContentString, on the trees parse returns for well-formed content,    *)
(* with whitespace text dropped or kept.                                   *)

MaxContentFrags == 5

InitContent ==
    \E fs \in Content({"<a>", "<b x=\"v\">"}, {"t", " ", "<a/>"}, MaxContentFrags) :
        \E kw \in BOOLEAN :
            Input(fs, [DefaultOptions EXCEPT !.keepWhitespace = kw])

NextContent == Parse \/ ToContentString

SpecContent == InitContent /\ [][NextContent]_vars

\* The content string as stated: the entries' strings joined by one space
\* and trimmed, a text giving one space and its raw text, an element the
\* content string of its children list.
RECURSIVE C13_Stated(_)
C13_Stated(list) ==
    Trim(JoinSpace([k \in 1..Len(list) |->
                       IF IsText(list[k]) THEN <<32>> \o list[k].text
                       ELSE C13_Stated(list[k].children)]))

\* A list text, element, text whose texts are not blank.
C13_ElementBetweenTexts(list) ==
    /\ Len(list) = 3
    /\ IsText(list[1]) /\ Trim(list[1].text) # <<>>
    /\ IsElement(list[2])
    /\ IsText(list[3]) /\ Trim(list[3].text) # <<>>

---------------------------------------------------------------------------
(* stringify with options, on the trees parse returns for well-formed      *)
(* content.                                                                *)

MaxWriteFrags == 5

InitWrite ==
    \E fs \in Content({"<a>", "<b x=\"v\">"}, {"t", "<a/>"}, MaxWriteFrags) :
        Input(fs, DefaultOptions)

NextWrite == Parse \/ StringifyWith

SpecWrite == InitWrite /\ [][NextWrite]_vars

\* The tag name of the element a fragment starts.
WrittenName(f) == IF f \in {"<a>", "<a/>"} THEN <<97>> ELSE <<98>>

\* The element that fragment j opens is still open just before fragment i.
StillOpen(j, i) ==
    /\ j < i
    /\ given[j] \in {"<a>", "<b x=\"v\">"}
    /\ \A e \in (j + 1)..(i - 1) :
          Cardinality({m \in (j + 1)..e : given[m] \in {"<a>", "<b x=\"v\">"}})
              >= Cardinality({m \in (j + 1)..e : given[m] \in {"</a>", "</b>"}})

\* Fragment i starts an element named in names, or belongs to one (its
\* content and its end tag).
WithinNamed(names, i) ==
    \/ given[i] \in {"<a>", "<b x=\"v\">", "<a/>"} /\ WrittenName(given[i]) \in names
    \/ \E j \in 1..(i - 1) : StillOpen(j, i) /\ WrittenName(given[j]) \in names

\* The fragments outside every skipped element, an empty-element tag
\* written as a start tag and an end tag.
RECURSIVE C14_Remaining(_)
C14_Remaining(i) ==
    IF i > Len(given) THEN <<>>
    ELSE (IF WithinNamed(res2.so.skipTags, i) THEN <<>>
          ELSE IF given[i] = "<a/>" THEN <<"<a>", "</a>">>
          ELSE <<given[i]>>)
         \o C14_Remaining(i + 1)

\* The tree without the elements named in names.
RECURSIVE C14_Prune(_, _)
C14_Prune(nodes, names) ==
    IF nodes = <<>> THEN <<>>
    ELSE (IF IsText(Head(nodes)) THEN <<Head(nodes)>>
          ELSE IF Head(nodes).tagName \in names THEN <<>>
          ELSE <<[Head(nodes) EXCEPT !.children = C14_Prune(@, names)]>>)
         \o C14_Prune(Tail(nodes), names)

\* The text without its spaces and newlines.
C14_Squeeze(text) == SelectSeq(text, LAMBDA c : c \notin {10, 32})

RECURSIVE C15_Plain(_, _)
C15_Plain(i, m) ==
    IF m > Len(given) THEN <<>>
    ELSE (IF (m = i \/ StillOpen(i, m)) /\ ~WithinNamed(res2.so.skipTags, m)
          THEN (IF given[m] = "<a/>" THEN <<"<a>", "</a>">> ELSE <<given[m]>>)
          ELSE <<>>)
         \o C15_Plain(i, m + 1)

\* Fragment i starts an element that compactTags names and that is written.
C15_Compact(i) ==
    /\ given[i] \in {"<a>", "<b x=\"v\">", "<a/>"}
    /\ WrittenName(given[i]) \in res2.so.compactTags
    /\ ~WithinNamed(res2.so.skipTags, i)

C16_IndentZeroOnly ==
    /\ phase = "written"
    /\ res2.so = [NoStringifyOptions EXCEPT !.indentSpaces = <<0>>]

\* C16: for every tree, stringify with indentSpaces 0 returns the same text
\* as stringify with no options at all, with no newline inserted anywhere
\* (the text is the elements and texts of the tree one after the other).
C16_IndentZeroIsPlain ==
    C16_IndentZeroOnly =>
        /\ str = stringify(res.out, NoStringifyOptions)
        /\ str = Flatten(C14_Remaining(1))
        /\ \A k \in 1..Len(str) : str[k] # 10

\* C16: a tree with an element inside an element beside a text was written
\* with indentSpaces 0.
C16_Witness ==
    /\ C16_IndentZeroOnly
    /\ Len(res.out) = 1
    /\ IsElement(res.out[1])
    /\ Len(res.out[1].children) = 2
    /\ \E k \in 1..2 : IsElement(res.out[1].children[k])
    /\ \E k \in 1..2 : IsText(res.out[1].children[k])

---------------------------------------------------------------------------
(* Processing instructions among the children, at the top level and inside *)
(* elements.                                                               *)

MaxInstructionFrags == 5

InitInstruction ==
    \E fs \in Content({"<a>"}, {"t", "<a/>", "<?p?>"}, MaxInstructionFrags) :
        Input(fs, DefaultOptions)

NextInstruction == Parse

SpecInstruction == InitInstruction /\ [][NextInstruction]_vars

\* The end tag of the element that fragment i opens.
C17_EndOf(i) ==
    CHOOSE m \in (i + 1)..Len(given) : StillOpen(i, m) /\ ~StillOpen(i, m + 1)

\* The last fragment of the run of text that starts at fragment i.
RECURSIVE C17_TextEnd(_)
C17_TextEnd(i) ==
    IF i < Len(given) /\ given[i + 1] = "t" THEN C17_TextEnd(i + 1) ELSE i

\* The nodes that fragments i..j stand for: a text per run of text, an
\* element per start tag with the nodes of its content, an element with no
\* children per empty-element tag and per processing instruction.
RECURSIVE C17_Nodes(_, _)
C17_Nodes(i, j) ==
    IF i > j THEN <<>>
    ELSE IF given[i] = "t"
    THEN <<Text(Flatten(SubSeq(given, i, C17_TextEnd(i))))>>
         \o C17_Nodes(C17_TextEnd(i) + 1, j)
    ELSE IF given[i] = "<a>"
    THEN <<Element(<<97>>, <<>>, C17_Nodes(i + 1, C17_EndOf(i) - 1))>>
         \o C17_Nodes(C17_EndOf(i) + 1, j)
    ELSE IF given[i] = "<?p?>"
    THEN <<Element(<<63, 112, 63>>, <<>>, <<>>)>> \o C17_Nodes(i + 1, j)
    ELSE <<Element(<<97>>, <<>>, <<>>)>> \o C17_Nodes(i + 1, j)

\* C17: wherever a processing instruction occurs among siblings (at the top
\* level or inside an element), parse yields for it an element node whose
\* tagName begins with '?' and whose children list is empty, and the nodes
\* parsed after it appear as its following siblings in the same children
\* list, in document order.
C17_InstructionsAsSiblings ==
    phase = "parsed" =>
        /\ res.status = "ok"
        /\ res.out = C17_Nodes(1, Len(given))

---------------------------------------------------------------------------
(* The streaming adapter on inputs of elements and text, cut into chunks.  *)

MaxElementFrags == 5

InitElementStream ==
    \E n \in 1..MaxElementFrags : \E fs \in [1..n -> {"<a>", "</a>", "t"}] :
        \E cuts \in CutSeqs(Len(Flatten(fs))) :
            StreamInput(fs, cuts, DefaultOptions)

NextElementStream == Transform

SpecElementStream == InitElementStream /\ [][NextElementStream]_vars

\* C18: for every sequence of chunks, a streaming adapter emits each
\* top-level element of the concatenated input at most once: an element
\* already emitted is never emitted again when a later chunk is processed.
C18_EmittedOnce ==
    streamStatus = "ok" =>
        \A i \in 1..Len(emitted) : \A j \in 1..Len(emitted) :
            (i < j /\ emitted[i].kind = "element" /\ emitted[j].kind = "element")
                => emitted[i].at # emitted[j].at

\* The items of a run, without the bookkeeping of when they were found.
C19_Items(out) ==
    [i \in 1..Len(out) |-> [kind |-> out[i].kind, value |-> out[i].value,
                            at |-> out[i].at]]

\* The run of a new adapter that is given the whole input as one chunk.
C19_Whole == transform(<<>>, 0, <<>>, 0, opts, S)

\* C19: the items a streaming adapter has emitted once all chunks are
\* processed do not depend on where the input was cut: every way of
\* splitting the input emits the same sequence of items as giving it in
\* one chunk (and so as every other way).
C19_CutIndependent ==
    (chunks = <<>> /\ streamStatus = "ok" /\ C19_Whole.status = "ok") =>
        C19_Items(emitted) = C19_Items(C19_Whole.emitted)

\* Inputs of start tags, end tags, text and processing instructions, cut
\* into chunks, given to a new adapter with the default parse options.
MaxDeclaredFrags == 4

InitDeclaredStream ==
    \E n \in 1..MaxDeclaredFrags :
        \E fs \in [1..n -> {"<?p?>", "<a>", "</a>", "t"}] :
            \E cuts \in CutSeqs(Len(Flatten(fs))) :
                StreamInput(fs, cuts, DefaultOptions)

NextDeclaredStream == Transform

SpecDeclaredStream == InitDeclaredStream /\ [][NextDeclaredStream]_vars

\* The chunks one after the other.
RECURSIVE Concat(_)
Concat(cs) == IF cs = <<>> THEN <<>> ELSE Head(cs) \o Concat(Tail(cs))

\* How many characters of the input the adapter has been given so far.
C20_Received ==
    Len(S) - Len(Concat(chunks))

\* Fragment i opens a top-level element that is complete: nothing is open
\* before it, no end tag before it is unmatched, and its end tag follows.
C20_TopLevel(i) ==
    /\ given[i] = "<a>"
    /\ \A m \in 1..i : C12_Depth(m) >= 0
    /\ C12_Depth(i) = 0
    /\ \E m \in (i + 1)..Len(given) : StillOpen(i, m) /\ ~StillOpen(i, m + 1)

\* The index of the first character of fragment i, and the index after the
\* last character of the element it opens.
C20_Start(i) == Len(Flatten(SubSeq(given, 1, i - 1)))
C20_End(i) == Len(Flatten(SubSeq(given, 1, C17_EndOf(i))))

\* C20: once the buffer holds a complete top-level element followed by at
\* least one more character, the streaming adapter has emitted that element
\* by the end of processing the chunk that delivered that character; it is
\* not left waiting for further input.
C20_EmittedWhenComplete ==
    streamStatus = "ok" =>
        \A i \in 1..Len(given) :
            (C20_TopLevel(i) /\ C20_Received > C20_End(i)) =>
                \E k \in 1..Len(emitted) :
                    /\ emitted[k].kind = "element"
                    /\ emitted[k].at = C20_Start(i)


---------------------------------------------------------------------------
(* Termination of parse.  Inputs of every kind of construct, terminated    *)
(* or not, under every setting of keepComments and keepWhitespace.         *)

MaxTerminateFrags == 3

TerminateFrags ==
    {"<a>", "</a>", "<a/>", "t", "<script>", "</script>", "<style>", "<!--",
     "<![CDATA[", "<!D", "</", "<b c='x", ">"}

InitTerminate ==
    \E n \in 1..MaxTerminateFrags : \E fs \in [1..n -> TerminateFrags] :
        \E kc \in BOOLEAN : \E kw \in BOOLEAN :
            Input(fs, [DefaultOptions EXCEPT !.keepComments = kc,
                                             !.keepWhitespace = kw])

NextTerminate == Parse

SpecTerminate == InitTerminate /\ [][NextTerminate]_vars

\* C21: outside attribute-search mode, parse terminates on every finite
\* input under every option setting: it returns a result or raises the
\* close-tag error.
C21_ParseTerminates ==
    phase = "parsed" => res.status \in {"ok", "throw"}


\* C23: outside attribute-search mode the parser scans in a single pass
\* without backtracking: every construct it consumes (text run, close tag,
\* comment, CDATA section, declaration, element) leaves the cursor strictly
\* after the position where that construct began.
C23_CursorAdvances ==
    phase = "parsed" =>
        \A k \in 1..Len(res.log) : res.log[k].to > res.log[k].from

---------------------------------------------------------------------------
(* Termination of the attribute search.  Inputs in which the attribute     *)
(* text stands inside a start tag, in plain text, or in a tag that is not  *)
(* finished.                                                               *)

MaxSearchFrags == 4

SearchFrags ==
    {"<a id=\"k\">", "</a>", "t", " id=\"k\"", "<b c='x", "<a", ">"}

InitSearch ==
    \E n \in 1..MaxSearchFrags : \E fs \in [1..n -> SearchFrags] :
        Input(fs, DefaultOptions)

NextSearch == GetElementById

SpecSearch == InitSearch /\ [][NextSearch]_vars

\* C22: in attribute-search mode every iteration of the search loop
\* discards at least the matched element from the working text, so the
\* search terminates on every input text.
C22_SearchTerminates ==
    phase = "byId" => res.found.status \in {"ok", "throw"}


---------------------------------------------------------------------------
(* Properly nested markup: every end tag carries the name of the element   *)
(* opened last and not yet closed.                                         *)

MaxNestedFrags == 4

InitNested ==
    \E fs \in Content({"<a>", "<b x=\"v\">", "<br>"},
                      {"t", "<a/>", "<?p?>", "<!--c>-->", "<![CDATA[t]]>"},
                      MaxNestedFrags) :
        \E kc \in BOOLEAN : \E kw \in BOOLEAN :
            Input(fs, [DefaultOptions EXCEPT !.keepComments = kc,
                                             !.keepWhitespace = kw])

NextNested == Parse

SpecNested == InitNested /\ [][NextNested]_vars

\* C24: parse raises no error on properly nested markup, that is on any
\* input in which every close tag carries exactly the name of the most
\* recently opened element that is not yet closed.
C24_NoErrorWhenNested ==
    phase = "parsed" => res.status # "throw"


---------------------------------------------------------------------------
(* parse, stringify, parse again.  Inputs are any sequences of fragments,  *)
(* well formed or not.                                                     *)

MaxReparseFrags == 4

ReparseFrags ==
    {"<a>", "</a>", "<a/>", "t", " ", "<b x=\"v\">", "<b x=\" v\">", "</b>",
     "<!--c>-->", "<?p?>", "<br>", "<script>", "</script>"}

InitReparse ==
    \E n \in 1..MaxReparseFrags : \E fs \in [1..n -> ReparseFrags] :
        Input(fs, DefaultOptions)

NextReparse == Parse \/ Stringify \/ Reparse

SpecReparse == InitReparse /\ [][NextReparse]_vars

C25_Returns ==
    phase = "reparsed" => (res2.status = "ok" /\ res2.out = res.out)

\* C25 as stated: the text stringify produces re-parses to the tree it was
\* produced from: for every input x that parse accepts,
\* parse(stringify(parse(x))) raises no error and equals parse(x).
C25_ReparseAll == C25_Returns

\* The input holds no "<!" and no "<?", no element of the self-closing
\* list, no attribute value with a space at either end, and every script
\* element is closed and its content has no space at either end.
C25_Plain ==
    /\ \A i \in 1..Len(given) :
          given[i] \notin {"<!--c>-->", "<?p?>", "<br>", "<b x=\" v\">"}
    /\ \A i \in 1..Len(given) :
          given[i] = "<script>" =>
              \E j \in (i + 1)..Len(given) :
                  /\ given[j] = "</script>"
                  /\ \A k \in (i + 1)..(j - 1) : given[k] # "</script>"
                  /\ given[i + 1] # " "
                  /\ given[j - 1] # " "

\* C25 amended: the same for inputs without comments and processing
\* instructions (no "<!" and no "<?"), without elements of the
\* self-closing list, without attribute values that trim would shorten, and
\* with every script or style element closed and its content unchanged by
\* trim.
C25_Reparse == C25_Plain => C25_Returns

C25_Witness ==
    /\ phase = "reparsed"
    /\ given = <<"<b x=\"v\">", " ", "t", "</b>">>
    /\ res2.status = "ok"
    /\ res2.out = res.out
    /\ res.out = <<Element(<<98>>, <<[name |-> <<120>>, value |-> StringValue(<<118>>)]>>,
                           <<Text(<<116>>)>>)>>


---------------------------------------------------------------------------
(* An adapter constructed with a starting offset: transformStream(n).      *)

MaxOffsetFrags == 4

\* A new adapter with offset n (position = n) and the chunks it will be
\* given; res keeps the offset.
StreamInputAt(fs, cuts, o, n) ==
    /\ given = fs
    /\ S = Flatten(fs)
    /\ opts = o
    /\ phase = "stream"
    /\ res = [offset |-> n]
    /\ res2 = None
    /\ str = <<>>
    /\ simp = None
    /\ chunks = ChunksOf(Flatten(fs), cuts)
    /\ data = <<>>
    /\ position = n
    /\ base = 0
    /\ emitted = <<>>
    /\ streamStatus = "ok"

InitOffsetStream ==
    \E n \in 1..MaxOffsetFrags : \E fs \in [1..n -> {"<a>", "</a>", "t"}] :
        \E cuts \in CutSeqs(Len(Flatten(fs))) :
            \E offset \in 0..Len(Flatten(fs)) :
                StreamInputAt(fs, cuts, DefaultOptions, offset)

NextOffsetStream == Transform

SpecOffsetStream == InitOffsetStream /\ [][NextOffsetStream]_vars

\* C26: a streaming adapter constructed with starting offset n never emits
\* an item that begins before index n of the concatenated input, for every
\* sequence of chunks.
C26_NothingBeforeOffset ==
    \A k \in 1..Len(emitted) : emitted[k].at >= res.offset


---------------------------------------------------------------------------
(* What the close-tag Error reports.  Inputs of tags and text on one or    *)
(* more lines.                                                             *)

MaxReportFrags == 4

InitReport ==
    \E n \in 1..MaxReportFrags :
        \E fs \in [1..n -> {"<a>", "</a>", "<b>", "</b>", "t", "\n"}] :
            Input(fs, DefaultOptions)

NextReport == Parse

SpecReport == InitReport /\ [][NextReport]_vars

\* The fragment whose close tag failed the check, and the index of its '>'.
C27_Failed ==
    CHOOSE e \in 1..Len(given) :
        Len(Flatten(SubSeq(given, 1, e - 1))) = res.log[Len(res.log)].from

C27_Point == Len(Flatten(SubSeq(given, 1, C27_Failed))) - 1

\* The fragments before the failing close tag that follow the last line
\* break.
C27_SameLine ==
    {i \in 1..(C27_Failed - 1) :
        \A j \in i..(C27_Failed - 1) : given[j] # "\n"}

RECURSIVE C27_Width(_)
C27_Width(is) ==
    IF is = {} THEN 0
    ELSE LET i == CHOOSE x \in is : TRUE
         IN  Len(Frag(given[i])) + C27_Width(is \ {i})

\* C27: the error raised on a close-tag mismatch reports the 1-based line
\* number and the 1-based column of the mismatch point (a mismatch on the
\* first line of the input is reported as line 1) together with the
\* character at that point.
C27_ErrorPosition ==
    (phase = "parsed" /\ res.status = "throw") =>
        /\ res.error.line =
              1 + Cardinality({i \in 1..(C27_Failed - 1) : given[i] = "\n"})
        /\ res.error.column =
              1 + C27_Width(C27_SameLine) + Len(Frag(given[C27_Failed])) - 1
        /\ res.error.char = <<S[C27_Point + 1]>>


---------------------------------------------------------------------------
(* What filter hands to the predicate, against the place of each element   *)
(* in the input of SpecFilter.                                             *)

\* The start tag of the element that holds fragment i as a child; 0 for a
\* root sibling.
C28_Parent(i) ==
    LET open == {j \in 1..(i - 1) : StillOpen(j, i)}
    IN  IF open = {} THEN 0 ELSE CHOOSE j \in open : \A k \in open : k <= j

\* How many children its parent has before fragment i: start tags and
\* empty-element tags of the same parent, and runs of text.
C28_Index(i) ==
    Cardinality({k \in (C28_Parent(i) + 1)..(i - 1) :
        /\ C28_Parent(k) = C28_Parent(i)
        /\ \/ given[k] \in {"<a>", "<b x=\"v\">", "<a/>"}
           \/ given[k] = "t" /\ (k = 1 \/ given[k - 1] # "t")})

C28_Name(i) == IF given[i] = "<b x=\"v\">" THEN <<98>> ELSE <<97>>

\* <parentPath>.<siblingIndex>.<tagName>, or <siblingIndex>.<tagName> for a
\* root sibling.
RECURSIVE C28_Path(_)
C28_Path(i) ==
    (IF C28_Parent(i) = 0 THEN <<>> ELSE C28_Path(C28_Parent(i)) \o <<46>>)
        \o NumberText(C28_Index(i)) \o <<46>> \o C28_Name(i)

C28_Selected(i) ==
    /\ given[i] \in {"<a>", "<b x=\"v\">", "<a/>"}
    /\ CASE res2.f.test = "path" -> C28_Path(i) = res2.f.arg
         [] res2.f.test = "index" -> C28_Index(i) = res2.f.arg
         [] res2.f.test = "depth" -> C12_Depth(i) = res2.f.arg
         [] OTHER -> C12_Holds(res2.f, i)

\* C28: filter calls the predicate for each element with the element's
\* index among its siblings, its depth (0 for root siblings) and a path
\* string that identifies the element's own position, equal to
\* <parentPath>.<siblingIndex>.<tagName>, or <siblingIndex>.<tagName> for a
\* root sibling.
C28_PredicateArguments ==
    phase = "filtered" => res2.out = C9_Elements(C28_Selected)


---------------------------------------------------------------------------
(* The grouping of simplifyLostLess, on the inputs of SpecLostLess.        *)

\* The list is neither empty nor a single text child.
C29_Covered(children) ==
    ~(Len(children) = 0 \/ (Len(children) = 1 /\ IsText(children[1])))

C29_Names(children) ==
    {children[i].tagName : i \in {j \in 1..Len(children) : IsElement(children[j])}}

\* The values of the children that bear the name, in document order.
C29_Values(children, name) ==
    [i \in 1..Len(C10_Bearing(children, name)) |->
        withAttributes(
            simplifyLostLess(C10_Bearing(children, name)[i].children,
                             C10_Bearing(children, name)[i].attributes),
            C10_Bearing(children, name)[i])]

\* Some element of the input bears a name that objects inherit.
C29_Inherited == \E i \in 1..Len(given) : given[i] = "<valueOf x=\"v\"/>"

\* C29 as stated: for a children list that is neither empty nor a single
\* text child, simplifyLostLess groups the element children exactly as
\* simplify does: one key per distinct tag name, a name borne by exactly one
\* child mapping to that child's value rather than to a one-element list,
\* and a name borne by several children mapping to the list of their values.
C29_GroupsAsSimplify ==
    (phase = "simplifiedLostLess" /\ C29_Covered(res.out)) =>
        simp = ObjectOf([name \in C29_Names(res.out) |->
                   IF Len(C29_Values(res.out, name)) = 1
                   THEN C29_Values(res.out, name)[1]
                   ELSE ListOf(C29_Values(res.out, name))])

\* C29 amended: one key per distinct tag name, every name mapping to the
\* list of the values of the children that bear it, a one-element list for
\* a name borne by exactly one child; and a TypeError when an element of
\* the tree bears a name that objects inherit.
C29_GroupsInLists ==
    (phase = "simplifiedLostLess" /\ C29_Covered(res.out)) =>
        IF C29_Inherited THEN simp = TypeError
        ELSE simp = ObjectOf([name \in C29_Names(res.out) |->
                        ListOf(C29_Values(res.out, name))])

\* C29: b is borne by one child and a by two; both map to lists.
C29_Witness ==
    /\ phase = "simplifiedLostLess"
    /\ given = <<"<b x=\"v\">", "t", "</b>", "<a/>", "<a/>">>
    /\ simp.t = "object"
    /\ DOMAIN simp.v = {<<97>>, <<98>>}
    /\ simp.v[<<98>>].t = "list"
    /\ Len(simp.v[<<98>>].v) = 1
    /\ simp.v[<<97>>] = ListOf(<<ObjectOf(<<>>), ObjectOf(<<>>)>>)


---------------------------------------------------------------------------
(* Doctype-like declarations: "<!D" followed by brackets, '>' and text, at *)
(* the top level or inside an element a.                                   *)

MaxDeclarationFrags == 5

InitDeclaration ==
    \E pre \in {<<>>, <<"<a>">>} : \E n \in 0..MaxDeclarationFrags :
        \E tail \in [1..n -> {"[", "]", ">", "t"}] :
            Input(pre \o <<"<!D">> \o tail, DefaultOptions)

NextDeclaration == Parse

SpecDeclaration == InitDeclaration /\ [][NextDeclaration]_vars

\* The declaration stands inside an element a; what follows "<!D".
C30_Nested == given[1] = "<a>"

C30_Tail == SubSeq(given, IF C30_Nested THEN 3 ELSE 2, Len(given))

\* The nesting depth before the k-th character after "<!D": up by one on
\* every '[', down by one on every ']'.
C30_Depth(k) ==
    Cardinality({j \in 1..(k - 1) : C30_Tail[j] = "["})
        - Cardinality({j \in 1..(k - 1) : C30_Tail[j] = "]"})

C30_DepthZero(k) == C30_Depth(k) = 0

\* No bracketed section is open before the k-th character: no '[' stands
\* before it without a ']' after that '['.
C30_NotEncapsulated(k) ==
    ~\E j \in 1..(k - 1) :
        /\ C30_Tail[j] = "["
        /\ \A m \in (j + 1)..(k - 1) : C30_Tail[m] # "]"

\* The first '>' at which the rule holds, or one past the end.
C30_End(rule(_)) ==
    LET ends == {k \in 1..Len(C30_Tail) : C30_Tail[k] = ">" /\ rule(k)}
    IN  IF ends = {} THEN Len(C30_Tail) + 1
        ELSE CHOOSE k \in ends : \A m \in ends : k <= m

\* What parse returns when the declaration ends at e: the text from '!' up
\* to e as one string child at the level of the declaration, then the rest
\* as text.
C30_Result(e) ==
    LET rest == Flatten(SubSeq(C30_Tail, e + 1, Len(C30_Tail)))
        level == <<Text(<<33, 68>> \o Flatten(SubSeq(C30_Tail, 1, e - 1)))>>
                     \o (IF rest # <<>> THEN <<Text(rest)>> ELSE <<>>)
    IN  IF C30_Nested THEN <<Element(<<97>>, <<>>, level)>> ELSE level

\* C30 as stated: in a doctype-like declaration a '>' ends the declaration
\* only while the bracket nesting depth is zero, where the depth goes up by
\* one on every '[' and down by one on every ']'; the text captured up to
\* that '>' is appended as one verbatim string child at the level where the
\* declaration occurs.
C30_NestingCounted ==
    phase = "parsed" =>
        (res.status = "ok" /\ res.out = C30_Result(C30_End(C30_DepthZero)))

\* C30 amended: a '>' ends the declaration only while no bracketed section
\* is open, where a '[' opens a section and the next ']' closes it, however
\* many '[' came before; the text from '!' up to that '>' is appended as
\* one verbatim string child at the level where the declaration occurs.
C30_BracketedSection ==
    phase = "parsed" =>
        (res.status = "ok" /\ res.out = C30_Result(C30_End(C30_NotEncapsulated)))

\* C30: a '>' inside brackets did not end the declaration, the '>' after
\* the ']' did, inside an element.
C30_Witness ==
    /\ phase = "parsed"
    /\ given = <<"<a>", "<!D", "[", ">", "]", ">", "t">>
    /\ res.out = <<Element(<<97>>, <<>>,
                      <<Text(<<33, 68, 91, 62, 93>>), Text(<<116>>)>>)>>

====
